---- MODULE Spec2Model ----
(***************************************************************************)
(* A model of the proof batcher (batcher/aligned-batcher): the priority    *)
(* queue of pending proofs, the per-address user states, the admission of  *)
(* SubmitProof messages and the batch finalizer driven by new blocks.      *)
(*                                                                         *)
(* Units.  Amounts of wei (max_fee, balances, gas prices) are counted in   *)
(* units of 10^8 wei so that they fit the model checker's integers; gas    *)
(* amounts are the source's own numbers.                                   *)
(***************************************************************************)
EXTENDS Integers, Sequences, FiniteSets, TLC

VARIABLES batch_queue, user_states, posting_batch, last_uploaded_batch_block,
          disabled_verifiers, last_seen_block, conn, task, tb, obs

vars == <<batch_queue, user_states, posting_batch, last_uploaded_batch_block,
          disabled_verifiers, last_seen_block, conn, task, tb, obs>>

(***************************************************************************)
(* Bounds of the model.                                                    *)
(***************************************************************************)
MaxNonce == 1
MaxBlock == 1
MaxBuildLen == 3
\* cap on the proof_count a user state may reach
MaxProofCount == 2

(***************************************************************************)
(* Program constants (aligned-sdk/src/core/constants.rs).                  *)
(***************************************************************************)
DEFAULT_AGGREGATOR_GAS_COST == 330000
BATCHER_SUBMISSION_BASE_GAS_COST == 125000
ADDITIONAL_SUBMISSION_GAS_COST_PER_PROOF == 2000
DEFAULT_AGGREGATOR_FEE_PERCENTAGE_MULTIPLIER == 125
GAS_PRICE_PERCENTAGE_MULTIPLIER == 110
PERCENTAGE_DIVIDER == 100
CBOR_ARRAY_MAX_OVERHEAD == 9
\* 100 Gwei = 1000 units of 10^8 wei
HIGH_GAS_PRICE == 1000
DEFAULT_MAX_FEE_PER_PROOF == ADDITIONAL_SUBMISSION_GAS_COST_PER_PROOF * HIGH_GAS_PRICE
DEFAULT_CONSTANT_GAS_COST ==
    ((DEFAULT_AGGREGATOR_GAS_COST * DEFAULT_AGGREGATOR_FEE_PERCENTAGE_MULTIPLIER)
        \div PERCENTAGE_DIVIDER) + BATCHER_SUBMISSION_BASE_GAS_COST
\* U256::MAX, capped at the largest integer of the model checker
U256_MAX == 2147483647

(***************************************************************************)
(* Configuration of the batcher (immutable after Batcher::new).            *)
(***************************************************************************)
aggregator_gas_cost == DEFAULT_AGGREGATOR_GAS_COST
aggregator_fee_percentage_multiplier == DEFAULT_AGGREGATOR_FEE_PERCENTAGE_MULTIPLIER
min_block_interval == 1
max_proof_size == 1
max_batch_byte_size == CBOR_ARRAY_MAX_OVERHEAD + 3
max_batch_proof_qty == 3

\* The paying users, the non-paying principal and its replacement signer.
PayingUsers == {"A"}
NonPayingAddress == "N"
ReplacementAddress == "R"
Senders == PayingUsers \cup {ReplacementAddress}
configured_chain_id == 1
payment_service_address == "P"
pre_verification_is_enabled == TRUE

\* Inputs of the environment.
MaxFees == {600000, 2000000}
Balances == {0, 3200000}
GasPrices == {3}
ChainNonces == {0, 1}
VerifierBitmaps == {0, 1}
MsgSizes == {1, 2}
ChainIds == {1, 2}
PaymentAddrs == {"P", "X"}
ProvingSystems == {0, 1}
NoSigner == "-"
\* a call to the chain that fails after its retries
RpcError == -1

\* Inputs of try_build_batch when it is exercised on its own.
BuildSenders == {"A", "B"}
BuildFees == {2000000, 3000000, 6000000}
BuildSizes == {1, 2}
BuildGasPrices == {11, 22}
BuildMaxBytes == {CBOR_ARRAY_MAX_OVERHEAD + 2, CBOR_ARRAY_MAX_OVERHEAD + 4, CBOR_ARRAY_MAX_OVERHEAD + 8}
BuildMaxQty == {1, 2, 4}

(***************************************************************************)
(* BatchQueueEntryPriority and its order.                                  *)
(***************************************************************************)
cmp(a, b) == IF a < b THEN "Less" ELSE IF a = b THEN "Equal" ELSE "Greater"

BatchQueueEntryPriority_new(max_fee, nonce) == [max_fee |-> max_fee, nonce |-> nonce]

\* the order with the tie on max_fee broken towards the lower nonce
BatchQueueEntryPriority_cmp_lower_nonce_first(self, other) ==
    LET ord == cmp(other.max_fee, self.max_fee)
    IN  IF ord = "Equal" THEN cmp(other.nonce, self.nonce) ELSE ord

\* impl Ord for BatchQueueEntryPriority
BatchQueueEntryPriority_cmp(self, other) ==
    LET ord == cmp(other.max_fee, self.max_fee)
    IN  IF ord = "Equal" THEN cmp(self.nonce, other.nonce) ELSE ord

BatchQueueEntry_new(sender, nonce, max_fee, size, sink) ==
    [sender |-> sender, nonce |-> nonce, max_fee |-> max_fee, size |-> size, sink |-> sink]

\* impl PartialEq for BatchQueueEntry: same sender and same nonce
BatchQueueEntry_eq(e1, e2) == e1.sender = e2.sender /\ e1.nonce = e2.nonce

(***************************************************************************)
(* The priority queue: a set of (entry, priority) items holding at most    *)
(* one item per entry (entries are compared with BatchQueueEntry_eq).      *)
(* pop and peek take an item of greatest priority; which one of several    *)
(* items of the same priority comes first depends on the heap's layout and *)
(* is a choice here.                                                       *)
(***************************************************************************)
Item(entry, priority) == [entry |-> entry, priority |-> priority]

queue_contains(queue, entry) == \E x \in queue : BatchQueueEntry_eq(x.entry, entry)

\* a push that inserts the item whatever the queue holds
queue_push_always_inserting(queue, entry, priority) == queue \cup {Item(entry, priority)}

\* PriorityQueue::push: an equal item already queued keeps its entry and only
\* takes the new priority
queue_push(queue, entry, priority) ==
    IF queue_contains(queue, entry)
    THEN {IF BatchQueueEntry_eq(x.entry, entry) THEN Item(x.entry, priority) ELSE x : x \in queue}
    ELSE queue \cup {Item(entry, priority)}

\* PriorityQueue::remove
queue_remove(queue, entry) == {x \in queue : ~BatchQueueEntry_eq(x.entry, entry)}

\* the items PriorityQueue::peek / pop may yield
queue_peek(queue) ==
    {x \in queue : \A y \in queue : BatchQueueEntryPriority_cmp(x.priority, y.priority) # "Less"}

\* the orders in which PriorityQueue::pop can empty the queue
RECURSIVE pop_orders(_)
pop_orders(queue) ==
    IF queue = {} THEN {<<>>}
    ELSE UNION {{<<x.entry>> \o rest : rest \in pop_orders(queue \ {x})} : x \in queue_peek(queue)}

RECURSIVE SumSizes(_)
SumSizes(s) == IF s = <<>> THEN 0 ELSE Head(s).size + SumSizes(Tail(s))

\* the size of the batch without the overhead of the CBOR array
calculate_batch_size_without_overhead(s) == SumSizes(s)

\* calculate_batch_size, over the entries in any order
calculate_batch_size(s) == CBOR_ARRAY_MAX_OVERHEAD + SumSizes(s)

\* the fee of a batch that is one proof longer
calculate_fee_per_proof_off_by_one(batch_len, gas_price, constant_gas_cost) ==
    LET gas_per_proof ==
            (constant_gas_cost + ADDITIONAL_SUBMISSION_GAS_COST_PER_PROOF * (batch_len + 1))
                \div (batch_len + 1)
    IN  gas_per_proof * gas_price

calculate_fee_per_proof(batch_len, gas_price, constant_gas_cost) ==
    LET gas_per_proof ==
            (constant_gas_cost + ADDITIONAL_SUBMISSION_GAS_COST_PER_PROOF * batch_len)
                \div batch_len
    IN  gas_per_proof * gas_price

\* the while loop without the comparison of the fee with the entry's max_fee
RECURSIVE peel_without_fee_check(_, _, _, _, _, _)
peel_without_fee_check(finalized_batch, batch_size, gas_price, max_bytes, max_qty, constant_gas_cost) ==
    IF finalized_batch = <<>> THEN <<>>
    ELSE LET entry == Head(finalized_batch)
             batch_len == Len(finalized_batch)
         IN  IF batch_size > max_bytes \/ batch_len > max_qty
             THEN peel_without_fee_check(Tail(finalized_batch), batch_size - entry.size,
                                         gas_price, max_bytes, max_qty, constant_gas_cost)
             ELSE finalized_batch

\* the while loop of try_build_batch over the heap given in pop order
RECURSIVE peel(_, _, _, _, _, _)
peel(finalized_batch, batch_size, gas_price, max_bytes, max_qty, constant_gas_cost) ==
    IF finalized_batch = <<>> THEN <<>>
    ELSE LET entry == Head(finalized_batch)
             batch_len == Len(finalized_batch)
             fee_per_proof == calculate_fee_per_proof(batch_len, gas_price, constant_gas_cost)
         IN  IF \/ batch_size > max_bytes
                \/ fee_per_proof > entry.max_fee
                \/ batch_len > max_qty
             THEN peel(Tail(finalized_batch), batch_size - entry.size,
                       gas_price, max_bytes, max_qty, constant_gas_cost)
             ELSE finalized_batch

BatchCostTooHigh == [ok |-> FALSE, batch |-> <<>>]

Reversed(s) == [i \in 1..Len(s) |-> s[Len(s) + 1 - i]]

\* try_build_batch listing what is left from the last popped to the first
try_build_batch_reversed(order, gas_price, max_bytes, max_qty, constant_gas_cost) ==
    LET finalized_batch ==
            peel(order, calculate_batch_size(order), gas_price, max_bytes, max_qty,
                 constant_gas_cost)
    IN  IF finalized_batch = <<>> THEN BatchCostTooHigh
        ELSE [ok |-> TRUE, batch |-> Reversed(finalized_batch)]

\* try_build_batch: order is the pop order of the queue it is given; the
\* result lists what is left in that same order (into_sorted_vec)
try_build_batch(order, gas_price, max_bytes, max_qty, constant_gas_cost) ==
    LET finalized_batch ==
            peel(order, calculate_batch_size(order), gas_price, max_bytes, max_qty,
                 constant_gas_cost)
    IN  IF finalized_batch = <<>> THEN BatchCostTooHigh
        ELSE [ok |-> TRUE, batch |-> finalized_batch]


(***************************************************************************)
(* BatchState: the queue and the user states (types/batch_state.rs,        *)
(* types/user_state.rs).  user_states is a map: its keys are its DOMAIN.   *)
(***************************************************************************)
UserState_new(nonce) ==
    [nonce |-> nonce, last_max_fee_limit |-> U256_MAX,
     total_fees_in_queue |-> 0, proof_count |-> 0]

contains_key(states, addr) == addr \in DOMAIN states

insert(states, addr, user_state) ==
    [a \in DOMAIN states \cup {addr} |-> IF a = addr THEN user_state ELSE states[a]]

\* user_states.entry(addr).or_insert(user_state)
or_insert(states, addr, user_state) ==
    IF contains_key(states, addr) THEN states ELSE insert(states, addr, user_state)

EntriesOf(queue, addr) == {x.entry : x \in {y \in queue : y.entry.sender = addr}}

RECURSIVE SumFees(_)
SumFees(entries) ==
    IF entries = {} THEN 0
    ELSE LET e == CHOOSE e \in entries : TRUE
         IN  e.max_fee + SumFees(entries \ {e})

MinFee(entries) ==
    IF entries = {} THEN U256_MAX
    ELSE CHOOSE m \in {e.max_fee : e \in entries} : \A e \in entries : m <= e.max_fee

\* BatchState::get_entry
get_entry(queue, sender, nonce) ==
    {x.entry : x \in {y \in queue : y.entry.sender = sender /\ y.entry.nonce = nonce}}

\* BatchState::get_user_min_fee_in_batch
get_user_min_fee_in_batch(queue, addr) == MinFee(EntriesOf(queue, addr))

\* a replacement that is checked against no other entry of the sender
replacement_entry_is_valid_unchecked(queue, replacement_entry) == TRUE

\* BatchState::replacement_entry_is_valid: the replacement keeps the sender's
\* max fees non-increasing in the nonce, i.e. no queued entry of the sender
\* with a lower nonce has a lower max_fee
replacement_entry_is_valid(queue, replacement_entry) ==
    ~\E e \in EntriesOf(queue, replacement_entry.sender) :
        /\ e.nonce < replacement_entry.nonce
        /\ e.max_fee < replacement_entry.max_fee

\* BatchState::update_user_state
update_user_state(states, addr, new_nonce, new_max_fee_limit, new_proof_count, new_total_fees_in_queue) ==
    [states EXCEPT ![addr] = [nonce |-> new_nonce,
                              last_max_fee_limit |-> new_max_fee_limit,
                              total_fees_in_queue |-> new_total_fees_in_queue,
                              proof_count |-> new_proof_count]]

\* BatchState::update_user_max_fee_limit
update_user_max_fee_limit(states, addr, new_max_fee_limit) ==
    [states EXCEPT ![addr].last_max_fee_limit = new_max_fee_limit]

\* BatchState::update_user_total_fees_in_queue_of_replacement_message
update_user_total_fees_in_queue_of_replacement_message(states, addr, original_max_fee, new_max_fee) ==
    [states EXCEPT ![addr].total_fees_in_queue = @ + (new_max_fee - original_max_fee)]

\* BatchState::calculate_new_user_states_data followed by the update loop of
\* remove_proofs_from_queue: (proof_count, max_fee_limit, total_fees_in_queue)
\* of every known address recomputed from the queue, (0, U256::MAX, 0) for an
\* address with no entry
recompute_user_states(states, queue) ==
    [a \in DOMAIN states |->
        [nonce |-> states[a].nonce,
         last_max_fee_limit |-> MinFee(EntriesOf(queue, a)),
         total_fees_in_queue |-> SumFees(EntriesOf(queue, a)),
         proof_count |-> Cardinality(EntriesOf(queue, a))]]

constant_gas_cost ==
    (aggregator_fee_percentage_multiplier * aggregator_gas_cost) \div PERCENTAGE_DIVIDER
        + BATCHER_SUBMISSION_BASE_GAS_COST

verify_user_has_enough_balance(user_balance, user_accumulated_fee, new_msg_max_fee) ==
    LET required_balance == user_accumulated_fee + new_msg_max_fee
    IN  user_balance >= required_balance

is_nonpaying(addr) == addr = NonPayingAddress

(***************************************************************************)
(* State of the tasks.  conn maps every connection to the position of its  *)
(* handler and the handler's locals; task maps every handle_new_block task *)
(* to its position and locals.  The connections and the tasks are the      *)
(* domains of these maps.                                                  *)
(***************************************************************************)
Conns == DOMAIN conn
Tasks == DOMAIN task

NoMsg == [signer |-> NoSigner, nonce |-> 0, max_fee |-> 0, size |-> 0]
IdleConn == [pc |-> "idle", msg |-> NoMsg, balance |-> 0, resp |-> "-"]
IdleTask == [pc |-> "idle", block_number |-> 0, gas_price |-> 0, batch |-> <<>>,
             fee_per_proof |-> 0]

\* what the first checks of handle_submit_proof_msg read of a message; its
\* nonce and its max_fee are read only after them
Envelopes ==
    [chain_id : ChainIds, payment_service_addr : PaymentAddrs, size : MsgSizes,
     signer : PayingUsers \cup {NonPayingAddress, NoSigner},
     proving_system : ProvingSystems, proof_ok : BOOLEAN]

\* zk_utils::is_verifier_disabled: the bit of the proving system in the bitmap
is_verifier_disabled(bitmap, verifier) == (bitmap \div (2 ^ verifier)) % 2 = 1

\* the first checks with the proof size looked at before the chain id
admission_prefix_proof_size_first(m, disabled) ==
    IF m.size > max_proof_size THEN "ProofTooLarge"
    ELSE IF m.chain_id # configured_chain_id THEN "InvalidChainId"
    ELSE IF m.payment_service_addr # payment_service_address
         THEN "InvalidPaymentServiceAddress"
    ELSE IF m.signer = NoSigner THEN "InvalidSignature"
    ELSE IF pre_verification_is_enabled /\ is_verifier_disabled(disabled, m.proving_system)
         THEN "InvalidProof(DisabledVerifier)"
    ELSE IF pre_verification_is_enabled /\ ~m.proof_ok THEN "InvalidProof(RejectedProof)"
    ELSE "pass"

\* the checks of handle_submit_proof_msg that precede the non-paying
\* short-circuit, in their order; "pass" when none fails
admission_prefix(m, disabled) ==
    IF m.chain_id # configured_chain_id THEN "InvalidChainId"
    ELSE IF m.payment_service_addr # payment_service_address
         THEN "InvalidPaymentServiceAddress"
    ELSE IF m.size > max_proof_size THEN "ProofTooLarge"
    ELSE IF m.signer = NoSigner THEN "InvalidSignature"
    ELSE IF pre_verification_is_enabled /\ is_verifier_disabled(disabled, m.proving_system)
         THEN "InvalidProof(DisabledVerifier)"
    ELSE IF pre_verification_is_enabled /\ ~m.proof_ok THEN "InvalidProof(RejectedProof)"
    ELSE "pass"

StoredMsg(m, nonce, max_fee) ==
    [signer |-> m.signer, nonce |-> nonce, max_fee |-> max_fee, size |-> m.size]

\* the messages that pass the first checks, reduced to what the handler keeps
PassingMsgs(disabled) ==
    {StoredMsg(m, nonce, max_fee) :
        m \in {x \in Envelopes : admission_prefix(x, disabled) = "pass"},
        nonce \in 0..MaxNonce, max_fee \in MaxFees}

\* the handler is done: of its locals, the message and the balance it read are
\* kept when the message was accepted
Accepted(resp) == resp \in {"Queued", "Replaced"}

Done(c, msg, balance, resp) ==
    [conn EXCEPT ![c] = [pc |-> "done",
                         msg |-> IF Accepted(resp) THEN msg ELSE NoMsg,
                         balance |-> IF Accepted(resp) THEN balance ELSE 0,
                         resp |-> resp]]

\* add_to_batch leaving the user's last_max_fee_limit as it was
add_to_batch_keeping_limit(queue, states, nonce, max_fee, size, sink, proof_submitter_addr) ==
    LET pushed == queue_push(queue,
                             BatchQueueEntry_new(proof_submitter_addr, nonce, max_fee,
                                                 size, sink),
                             BatchQueueEntryPriority_new(max_fee, nonce))
        addr == IF is_nonpaying(proof_submitter_addr) THEN ReplacementAddress
                ELSE proof_submitter_addr
    IN  IF ~contains_key(states, addr)
        THEN [ok |-> FALSE, queue |-> pushed, states |-> states]
        ELSE [ok |-> TRUE, queue |-> pushed,
              states |-> update_user_state(states, addr, nonce + 1,
                                           states[addr].last_max_fee_limit,
                                           states[addr].proof_count + 1,
                                           states[addr].total_fees_in_queue + max_fee)]

\* add_to_batch: the push, then the update of the submitter's user state;
\* ok is FALSE when the user state is missing (AddressNotFoundInUserStates)
add_to_batch(queue, states, nonce, max_fee, size, sink, proof_submitter_addr) ==
    LET pushed == queue_push(queue,
                             BatchQueueEntry_new(proof_submitter_addr, nonce, max_fee,
                                                 size, sink),
                             BatchQueueEntryPriority_new(max_fee, nonce))
        addr == IF is_nonpaying(proof_submitter_addr) THEN ReplacementAddress
                ELSE proof_submitter_addr
    IN  IF ~contains_key(states, addr)
        THEN [ok |-> FALSE, queue |-> pushed, states |-> states]
        ELSE [ok |-> TRUE, queue |-> pushed,
              states |-> update_user_state(states, addr, nonce + 1, max_fee,
                                           states[addr].proof_count + 1,
                                           states[addr].total_fees_in_queue + max_fee)]

\* handle_replacement_message without the adjustment of total_fees_in_queue
handle_replacement_message_keeping_total_fees(queue, states, msg, sink, addr) ==
    LET found == get_entry(queue, addr, msg.nonce)
        unchanged(resp) == [queue |-> queue, states |-> states, resp |-> resp]
    IN  IF found = {} THEN unchanged("InvalidNonce")
        ELSE
        LET entry == CHOOSE e \in found : TRUE
            original_max_fee == entry.max_fee
            replacement_entry ==
                BatchQueueEntry_new(entry.sender, msg.nonce, msg.max_fee, msg.size, sink)
        IN  IF original_max_fee > msg.max_fee THEN unchanged("InvalidReplacementMessage")
            ELSE IF ~replacement_entry_is_valid(queue, replacement_entry)
                 THEN unchanged("InvalidReplacementMessage")
            ELSE
            LET replaced ==
                    queue_push(queue_remove(queue, replacement_entry), replacement_entry,
                               BatchQueueEntryPriority_new(msg.max_fee, msg.nonce))
            IN  [queue |-> replaced,
                 states |-> update_user_max_fee_limit(
                                states, addr, get_user_min_fee_in_batch(replaced, addr)),
                 resp |-> "Replaced"]

\* handle_replacement_message, under the BatchState lock it is given
handle_replacement_message(queue, states, msg, sink, addr) ==
    LET found == get_entry(queue, addr, msg.nonce)
        unchanged(resp) == [queue |-> queue, states |-> states, resp |-> resp]
    IN  IF found = {} THEN unchanged("InvalidNonce")
        ELSE
        LET entry == CHOOSE e \in found : TRUE
            original_max_fee == entry.max_fee
            replacement_entry ==
                BatchQueueEntry_new(entry.sender, msg.nonce, msg.max_fee, msg.size, sink)
        IN  IF original_max_fee > msg.max_fee THEN unchanged("InvalidReplacementMessage")
            ELSE IF ~replacement_entry_is_valid(queue, replacement_entry)
                 THEN unchanged("InvalidReplacementMessage")
            ELSE
            LET replaced ==
                    queue_push(queue_remove(queue, replacement_entry), replacement_entry,
                               BatchQueueEntryPriority_new(msg.max_fee, msg.nonce))
                limited ==
                    update_user_max_fee_limit(states, addr,
                                              get_user_min_fee_in_batch(replaced, addr))
            IN  [queue |-> replaced,
                 states |-> update_user_total_fees_in_queue_of_replacement_message(
                                limited, addr, original_max_fee, msg.max_fee),
                 resp |-> "Replaced"]

\* validate_and_add without the rejection of a nonce above the expected one
validate_and_add_accepting_nonce_gap(queue, states, msg, user_balance, sink) ==
    LET addr == msg.signer
        unchanged(resp) == [queue |-> queue, states |-> states, resp |-> resp]
    IN  IF ~contains_key(states, addr) THEN unchanged("AddToBatchError")
        ELSE
        LET user_last_max_fee_limit == states[addr].last_max_fee_limit
            user_accumulated_fee == states[addr].total_fees_in_queue
            expected_nonce == states[addr].nonce
        IN  IF ~verify_user_has_enough_balance(user_balance, user_accumulated_fee,
                                               msg.max_fee)
            THEN unchanged("InsufficientBalance")
            ELSE IF expected_nonce > msg.nonce
                 THEN handle_replacement_message(queue, states, msg, sink, addr)
            ELSE IF msg.max_fee > user_last_max_fee_limit THEN unchanged("InvalidMaxFee")
            ELSE LET added == add_to_batch(queue, states, msg.nonce, msg.max_fee,
                                           msg.size, sink, addr)
                 IN  [queue |-> added.queue, states |-> added.states,
                      resp |-> IF added.ok THEN "Queued" ELSE "AddToBatchError"]

\* the same without the check of the max fee against last_max_fee_limit
validate_and_add_without_max_fee_check(queue, states, msg, user_balance, sink) ==
    LET addr == msg.signer
        unchanged(resp) == [queue |-> queue, states |-> states, resp |-> resp]
    IN  IF ~contains_key(states, addr) THEN unchanged("AddToBatchError")
        ELSE
        LET user_accumulated_fee == states[addr].total_fees_in_queue
            expected_nonce == states[addr].nonce
        IN  IF ~verify_user_has_enough_balance(user_balance, user_accumulated_fee,
                                               msg.max_fee)
            THEN unchanged("InsufficientBalance")
            ELSE IF expected_nonce < msg.nonce THEN unchanged("InvalidNonce")
            ELSE IF expected_nonce > msg.nonce
                 THEN handle_replacement_message(queue, states, msg, sink, addr)
            ELSE LET added == add_to_batch(queue, states, msg.nonce, msg.max_fee,
                                           msg.size, sink, addr)
                 IN  [queue |-> added.queue, states |-> added.states,
                      resp |-> IF added.ok THEN "Queued" ELSE "AddToBatchError"]

\* handle_submit_proof_msg from the point where it takes the BatchState lock
\* for good: the checks over the user state, then the replacement or the push.
\* The responses "Queued" and "Replaced" stand for the two outcomes that send
\* no message.
validate_and_add(queue, states, msg, user_balance, sink) ==
    LET addr == msg.signer
        unchanged(resp) == [queue |-> queue, states |-> states, resp |-> resp]
    IN  IF ~contains_key(states, addr) THEN unchanged("AddToBatchError")
        ELSE
        LET user_last_max_fee_limit == states[addr].last_max_fee_limit
            user_accumulated_fee == states[addr].total_fees_in_queue
            expected_nonce == states[addr].nonce
        IN  IF ~verify_user_has_enough_balance(user_balance, user_accumulated_fee,
                                               msg.max_fee)
            THEN unchanged("InsufficientBalance")
            ELSE IF expected_nonce < msg.nonce THEN unchanged("InvalidNonce")
            ELSE IF expected_nonce > msg.nonce
                 THEN handle_replacement_message(queue, states, msg, sink, addr)
            ELSE IF msg.max_fee > user_last_max_fee_limit THEN unchanged("InvalidMaxFee")
            ELSE LET added == add_to_batch(queue, states, msg.nonce, msg.max_fee,
                                           msg.size, sink, addr)
                 IN  [queue |-> added.queue, states |-> added.states,
                      resp |-> IF added.ok THEN "Queued" ELSE "AddToBatchError"]

\* handle_nonpaying_msg, given the balance it reads for the replacement address
handle_nonpaying_msg_with(queue, states, msg, replacement_user_balance, sink) ==
    IF replacement_user_balance = RpcError \/ replacement_user_balance = 0
    THEN [queue |-> queue, states |-> states, resp |-> "InsufficientBalance"]
    ELSE LET added == add_to_batch(queue, states, msg.nonce, DEFAULT_MAX_FEE_PER_PROOF,
                                   msg.size, sink, ReplacementAddress)
         IN  [queue |-> added.queue, states |-> added.states,
              resp |-> IF added.ok THEN "Queued" ELSE "AddToBatchError"]

\* a SubmitProof message together with what its handler reads from the chain;
\* the nonce of a message may be above every nonce the handler accepts
AdmissionInputsOf(envelopes, unlocked) ==
    [m : envelopes, nonce : 0..(MaxNonce + 1), max_fee : MaxFees, unlocked : unlocked,
     ethereum_user_nonce : ChainNonces \cup {RpcError},
     user_balance : Balances \cup {RpcError}]

AdmissionInputs == AdmissionInputsOf(Envelopes, BOOLEAN)

\* handle_submit_proof_msg run from its first check to its end with no other
\* task in between
handle_submit_proof_msg(queue, states, disabled, sink, in) ==
    LET msg == StoredMsg(in.m, in.nonce, in.max_fee)
        addr == in.m.signer
        prefix == admission_prefix(in.m, disabled)
        unchanged(resp) == [queue |-> queue, states |-> states, resp |-> resp]
    IN  IF prefix # "pass" THEN unchanged(prefix)
        ELSE IF is_nonpaying(addr)
             THEN handle_nonpaying_msg_with(queue, states,
                                            [msg EXCEPT !.max_fee = DEFAULT_MAX_FEE_PER_PROOF],
                                            in.user_balance, sink)
        ELSE IF in.unlocked THEN unchanged("InsufficientBalance")
        ELSE IF ~contains_key(states, addr) /\ in.ethereum_user_nonce = RpcError
             THEN unchanged("EthRpcError")
        ELSE LET inserted == or_insert(states, addr, UserState_new(in.ethereum_user_nonce))
             IN  IF in.user_balance = RpcError
                 THEN [queue |-> queue, states |-> inserted, resp |-> "EthRpcError"]
                 ELSE validate_and_add(queue, inserted, msg, in.user_balance, sink)

\* a flush that keeps the user states
flushed_user_states_keeping_users(nonce_read) == user_states

\* flush_queue_and_clear_nonce_cache: what is left of the user states, given
\* the result of reading the replacement address's nonce from the chain
flushed_user_states(nonce_read) ==
    IF nonce_read = RpcError THEN <<>>
    ELSE [a \in {ReplacementAddress} |-> UserState_new(nonce_read)]

\* a message written to the sink of a connection
SinkMessage(sink, msg) == [sink |-> sink, msg |-> msg]

\* a flush that sends nothing
BatchResetMessages_to_no_sink(queue) == {}

\* flush_queue_and_clear_nonce_cache: BatchReset goes to the sink of every
\* queued entry before the queue and the user states are cleared
BatchResetMessages(queue) == {SinkMessage(x.entry.sink, "BatchReset") : x \in queue}

\* remove_proofs_from_queue: the queue without the entries of the batch
RECURSIVE remove_all(_, _)
remove_all(queue, finalized_batch) ==
    IF finalized_batch = <<>> THEN queue
    ELSE remove_all(queue_remove(queue, Head(finalized_batch)), Tail(finalized_batch))

\* connection::send_batch_inclusion_data_responses: BatchInclusion goes to the
\* sink of every entry of the batch
send_batch_inclusion_data_responses(finalized_batch) ==
    {SinkMessage(finalized_batch[i].sink, "BatchInclusion") : i \in 1..Len(finalized_batch)}

\* submit_batch calls simulate_create_new_task, upload_batch_to_s3 and
\* create_new_task in this order and returns at the first that fails; a run
\* lists how each call ended, "-" for a call that was not made
SubmitRuns ==
    {<<"Reverted", "-", "-">>, <<"RpcFailure", "-", "-">>, <<"Ok", "Failed", "-">>,
     <<"Ok", "Ok", "ReceiptNotFoundError">>, <<"Ok", "Ok", "OtherError">>,
     <<"Ok", "Ok", "Ok">>}

\* simulate_create_new_task_retryable: a revert of the simulation is returned
\* as the TransactionSendError of an insufficient balance, any other failure
\* as an error finalize_batch does not tell apart
simulation_error(result) ==
    IF result = "Reverted" THEN "SubmissionInsufficientBalance" ELSE "OtherError"

\* the result of submit_batch after a run: the error of the first call that
\* fails; a receipt that is not found is returned as such after
\* cancel_create_new_task_tx
submit_batch_result(run) ==
    IF run[1] # "Ok" THEN simulation_error(run[1])
    ELSE IF run[2] # "Ok" THEN "OtherError"
    ELSE run[3]

\* the results of submit_batch
SubmitOutcomes == {submit_batch_result(run) : run \in SubmitRuns}

\* a receipt that is not found flushes the queue as well
flushes_on_receipt_not_found(outcome) ==
    outcome \in {"SubmissionInsufficientBalance", "ReceiptNotFoundError"}

\* every failure of submit_batch flushes the queue
flushes_on_any_error(outcome) == outcome # "Ok"

\* finalize_batch: the failure of submit_batch on which the queue is flushed
flushes_on(outcome) == outcome = "SubmissionInsufficientBalance"

connVars == <<conn>>
chainVars == <<posting_batch, last_uploaded_batch_block, disabled_verifiers,
               last_seen_block, task>>

(***************************************************************************)
(* The connection handlers.                                                *)
(***************************************************************************)
\* handle_submit_proof_msg: a message that fails one of the first checks
RejectSubmitProof(c) ==
    /\ conn[c].pc = "idle"
    /\ \E resp \in {admission_prefix(m, disabled_verifiers) : m \in Envelopes} \ {"pass"} :
          conn' = Done(c, NoMsg, 0, resp)
    /\ UNCHANGED <<batch_queue, user_states, chainVars, tb, obs>>

\* handle_submit_proof_msg from a paying address, up to the query whether the
\* user is in the state
ReceivePayingMsg(c) ==
    /\ conn[c].pc = "idle"
    /\ \E msg \in PassingMsgs(disabled_verifiers), unlocked \in BOOLEAN :
          /\ ~is_nonpaying(msg.signer)
          /\ IF unlocked
             THEN conn' = Done(c, msg, 0, "InsufficientBalance")
             ELSE conn' = [conn EXCEPT ![c] =
                             [pc |-> IF contains_key(user_states, msg.signer)
                                     THEN "validate" ELSE "insert_user",
                              msg |-> msg, balance |-> 0, resp |-> "-"]]
    /\ UNCHANGED <<batch_queue, user_states, chainVars, tb, obs>>

\* the nonce of a user not in the state is read from the chain and inserted
InsertUserState(c) ==
    /\ conn[c].pc = "insert_user"
    /\ \E ethereum_user_nonce \in ChainNonces \cup {RpcError} :
          IF ethereum_user_nonce = RpcError
          THEN /\ conn' = Done(c, conn[c].msg, 0, "EthRpcError")
               /\ UNCHANGED user_states
          ELSE /\ user_states' = or_insert(user_states, conn[c].msg.signer,
                                           UserState_new(ethereum_user_nonce))
               /\ conn' = [conn EXCEPT ![c].pc = "validate"]
    /\ UNCHANGED <<batch_queue, chainVars, tb, obs>>

\* the balance is read, then the BatchState lock is held to the end
ValidateAndAdd(c) ==
    /\ conn[c].pc = "validate"
    /\ \E user_balance \in Balances \cup {RpcError} :
          IF user_balance = RpcError
          THEN /\ conn' = Done(c, conn[c].msg, 0, "EthRpcError")
               /\ UNCHANGED <<batch_queue, user_states>>
          ELSE \E out \in {validate_and_add(batch_queue, user_states, conn[c].msg,
                                             user_balance, c)} :
                  /\ batch_queue' = out.queue
                  /\ user_states' = out.states
                  /\ conn' = Done(c, conn[c].msg, user_balance, out.resp)
    /\ UNCHANGED <<chainVars, tb, obs>>

\* handle_nonpaying_msg (a non-paying configuration is loaded)
handle_nonpaying_msg(c) ==
    /\ conn[c].pc = "idle"
    /\ \E m \in PassingMsgs(disabled_verifiers),
          replacement_user_balance \in Balances \cup {RpcError} :
          /\ is_nonpaying(m.signer)
          /\ contains_key(user_states, ReplacementAddress)
                => user_states[ReplacementAddress].proof_count < MaxProofCount
          /\ LET msg == [m EXCEPT !.max_fee = DEFAULT_MAX_FEE_PER_PROOF]
             IN  \E out \in {handle_nonpaying_msg_with(batch_queue, user_states, msg,
                                                       replacement_user_balance, c)} :
                    /\ batch_queue' = out.queue
                    /\ user_states' = out.states
                    /\ conn' = Done(c, msg, replacement_user_balance, out.resp)
    /\ UNCHANGED <<chainVars, tb, obs>>

\* handle_message returns; the connection waits for its next message
Return(c) ==
    /\ conn[c].pc = "done"
    /\ conn' = [conn EXCEPT ![c] = IdleConn]
    /\ UNCHANGED <<batch_queue, user_states, chainVars, tb, obs>>

(***************************************************************************)
(* The block listener and the handle_new_block tasks.                      *)
(***************************************************************************)
IdleTasks == {t \in Tasks : task[t].pc = "idle"}

\* listen_new_blocks_retryable: a block of either subscription
NewBlock ==
    /\ IdleTasks # {}
    /\ \E block_number \in 1..MaxBlock :
          IF block_number <= last_seen_block
          THEN UNCHANGED <<last_seen_block, task>>
          ELSE /\ last_seen_block' = block_number
               /\ LET t == CHOOSE t \in IdleTasks : \A u \in IdleTasks : t <= u
                  IN  task' = [task EXCEPT ![t] =
                                  [IdleTask EXCEPT !.pc = "start",
                                                   !.block_number = block_number]]
    /\ UNCHANGED <<batch_queue, user_states, posting_batch, last_uploaded_batch_block,
                   disabled_verifiers, conn, tb, obs>>

\* listen_new_blocks: the subscription ended and listen_new_blocks_retryable is
\* run again, with a new last_seen_block
Resubscribe ==
    /\ last_seen_block # 0
    /\ last_seen_block' = 0
    /\ UNCHANGED <<batch_queue, user_states, posting_batch, last_uploaded_batch_block,
                   disabled_verifiers, conn, task, tb, obs>>

\* what an observed step of the finalizer records: the result of submit_batch
\* and the messages written to the sinks of queue entries
NoObs == [outcome |-> "-", sent |-> {}, run |-> <<>>]

\* handle_new_block up to the call of is_batch_ready, given what it reads
\* from the chain; obs_next is the record left of the step
handle_new_block_reading(t, gas_price, new_disable_verifiers, nonce_read, obs_next) ==
    /\ task[t].pc = "start"
    /\ IF gas_price = RpcError \/ new_disable_verifiers = RpcError
       THEN /\ task' = [task EXCEPT ![t] = IdleTask]
            /\ UNCHANGED <<batch_queue, user_states, disabled_verifiers>>
       ELSE /\ IF new_disable_verifiers # disabled_verifiers
               THEN /\ disabled_verifiers' = new_disable_verifiers
                    /\ batch_queue' = {}
                    /\ user_states' = flushed_user_states(nonce_read)
               ELSE UNCHANGED <<batch_queue, user_states, disabled_verifiers>>
            /\ task' = [task EXCEPT ![t].pc = "is_batch_ready",
                                    ![t].gas_price =
                                         (gas_price * GAS_PRICE_PERCENTAGE_MULTIPLIER)
                                             \div PERCENTAGE_DIVIDER]
    /\ obs' = obs_next
    /\ UNCHANGED <<posting_batch, last_uploaded_batch_block, last_seen_block, conn, tb>>

\* nonce_read is read only by a flush
NonceReads(flushing) == IF flushing THEN ChainNonces \cup {RpcError} ELSE {RpcError}

handle_new_block(t) ==
    /\ task[t].pc = "start"
    /\ \E gas_price \in GasPrices \cup {RpcError},
          new_disable_verifiers \in VerifierBitmaps \cup {RpcError} :
          \E nonce_read \in NonceReads(new_disable_verifiers \notin {RpcError, disabled_verifiers}) :
             handle_new_block_reading(t, gas_price, new_disable_verifiers, nonce_read, obs)

\* the conditions under which is_batch_ready returns before it sets the
\* posting flag, without the one on the flag itself
batch_not_ready_ignoring_posting(current_batch_len, block_number, last_uploaded, batch_posting) ==
    \/ current_batch_len < 1
    \/ block_number < last_uploaded + min_block_interval

\* the conditions under which is_batch_ready returns before it sets the
\* posting flag, without the one on the blocks passed since the last batch
batch_not_ready_ignoring_interval(current_batch_len, block_number, last_uploaded, batch_posting) ==
    \/ current_batch_len < 1
    \/ batch_posting

\* the conditions under which is_batch_ready returns before it sets the
\* posting flag
batch_not_ready(current_batch_len, block_number, last_uploaded, batch_posting) ==
    \/ current_batch_len < 1
    \/ block_number < last_uploaded + min_block_interval
    \/ batch_posting

\* is_batch_ready taking out of the shared queue the proofs of a queue for
\* which no batch is found
is_batch_ready_removing_proofs(t) ==
    /\ task[t].pc = "is_batch_ready"
    /\ LET current_batch_len == Cardinality(batch_queue)
       IN  IF batch_not_ready(current_batch_len, task[t].block_number,
                              last_uploaded_batch_block, posting_batch)
           THEN /\ task' = [task EXCEPT ![t] = IdleTask]
                /\ UNCHANGED <<posting_batch, batch_queue>>
           ELSE \E order \in pop_orders(batch_queue) :
                   LET finalized_batch ==
                           try_build_batch(order, task[t].gas_price, max_batch_byte_size,
                                           max_batch_proof_qty, constant_gas_cost)
                   IN  IF finalized_batch.ok
                       THEN /\ posting_batch' = TRUE
                            /\ task' = [task EXCEPT ![t].pc = "finalize",
                                                    ![t].batch = finalized_batch.batch]
                            /\ UNCHANGED batch_queue
                       ELSE /\ posting_batch' = FALSE
                            /\ task' = [task EXCEPT ![t] = IdleTask]
                            /\ batch_queue' = {}
    /\ UNCHANGED <<user_states, last_uploaded_batch_block,
                   disabled_verifiers, last_seen_block, conn, tb, obs>>

is_batch_ready(t) ==
    /\ task[t].pc = "is_batch_ready"
    /\ LET current_batch_len == Cardinality(batch_queue)
       IN  IF batch_not_ready(current_batch_len, task[t].block_number,
                              last_uploaded_batch_block, posting_batch)
           THEN /\ task' = [task EXCEPT ![t] = IdleTask]
                /\ UNCHANGED posting_batch
           ELSE \E order \in pop_orders(batch_queue) :
                   LET finalized_batch ==
                           try_build_batch(order, task[t].gas_price, max_batch_byte_size,
                                           max_batch_proof_qty, constant_gas_cost)
                   IN  IF finalized_batch.ok
                       THEN /\ posting_batch' = TRUE
                            /\ task' = [task EXCEPT ![t].pc = "finalize",
                                                    ![t].batch = finalized_batch.batch]
                       ELSE /\ posting_batch' = FALSE
                            /\ task' = [task EXCEPT ![t] = IdleTask]
    /\ UNCHANGED <<batch_queue, user_states, last_uploaded_batch_block,
                   disabled_verifiers, last_seen_block, conn, tb, obs>>

\* finalize_batch up to the calls of submit_batch to the chain: the block of
\* the batch is recorded and the fee parameters are computed
finalize_batch(t) ==
    /\ task[t].pc = "finalize"
    /\ last_uploaded_batch_block' = task[t].block_number
    /\ LET num_proofs_in_batch == Len(task[t].batch)
           gas_per_proof ==
               (constant_gas_cost
                   + ADDITIONAL_SUBMISSION_GAS_COST_PER_PROOF * num_proofs_in_batch)
                   \div num_proofs_in_batch
       IN  task' = [task EXCEPT ![t].pc = "submit",
                                ![t].block_number = 0,
                                ![t].fee_per_proof = gas_per_proof * task[t].gas_price]
    /\ UNCHANGED <<batch_queue, user_states, posting_batch, disabled_verifiers,
                   last_seen_block, conn, tb, obs>>

\* submit_batch (simulation, upload, create_new_task) and what finalize_batch
\* does with its result
submit_batch_with(t, outcome, nonce_read, obs_next) ==
    /\ task[t].pc = "submit"
    /\ IF outcome = "Ok"
       THEN /\ batch_queue' = remove_all(batch_queue, task[t].batch)
            /\ user_states' = recompute_user_states(user_states, batch_queue')
       ELSE IF flushes_on(outcome)
            THEN /\ batch_queue' = {}
                 /\ user_states' = flushed_user_states(nonce_read)
       ELSE UNCHANGED <<batch_queue, user_states>>
    /\ task' = [task EXCEPT ![t] = [IdleTask EXCEPT !.pc = "reset"]]
    /\ obs' = obs_next
    /\ UNCHANGED <<posting_batch, last_uploaded_batch_block, disabled_verifiers,
                   last_seen_block, conn, tb>>

submit_batch(t) ==
    /\ task[t].pc = "submit"
    /\ \E outcome \in SubmitOutcomes :
          \E nonce_read \in NonceReads(outcome # "Ok" /\ flushes_on(outcome)) :
             submit_batch_with(t, outcome, nonce_read, obs)

\* a return of handle_new_block that leaves the posting flag as it is
reset_posting_batch_keeping_flag(t) ==
    /\ task[t].pc = "reset"
    /\ task' = [task EXCEPT ![t] = IdleTask]
    /\ UNCHANGED <<batch_queue, user_states, posting_batch, last_uploaded_batch_block,
                   disabled_verifiers, last_seen_block, conn, tb, obs>>

\* handle_new_block after finalize_batch: the posting flag is reset; what was
\* recorded of the cycle is dropped with its end
reset_posting_batch(t) ==
    /\ task[t].pc = "reset"
    /\ posting_batch' = FALSE
    /\ task' = [task EXCEPT ![t] = IdleTask]
    /\ obs' = NoObs
    /\ UNCHANGED <<batch_queue, user_states, last_uploaded_batch_block,
                   disabled_verifiers, last_seen_block, conn, tb>>

InitWith(conns, tasks) ==
    /\ batch_queue = {}
    /\ \E nonpaying_nonce \in ChainNonces :
          user_states = [a \in {ReplacementAddress} |-> UserState_new(nonpaying_nonce)]
    /\ posting_batch = FALSE
    /\ last_uploaded_batch_block = 0
    /\ disabled_verifiers \in VerifierBitmaps
    /\ last_seen_block = 0
    /\ conn = [c \in conns |-> IdleConn]
    /\ task = [t \in tasks |-> IdleTask]
    /\ tb = [called |-> FALSE, order |-> <<>>, gas_price |-> 0, max_bytes |-> 0,
             max_qty |-> 0, result |-> BatchCostTooHigh]
    /\ obs = NoObs

Init == InitWith({"c1"}, {1})

Next ==
    \/ \E c \in Conns : RejectSubmitProof(c)
    \/ \E c \in Conns : ReceivePayingMsg(c)
    \/ \E c \in Conns : InsertUserState(c)
    \/ \E c \in Conns : ValidateAndAdd(c)
    \/ \E c \in Conns : handle_nonpaying_msg(c)
    \/ \E c \in Conns : Return(c)
    \/ NewBlock
    \/ Resubscribe
    \/ \E t \in Tasks : handle_new_block(t)
    \/ \E t \in Tasks : is_batch_ready(t)
    \/ \E t \in Tasks : finalize_batch(t)
    \/ \E t \in Tasks : submit_batch(t)
    \/ \E t \in Tasks : reset_posting_batch(t)

Spec == Init /\ [][Next]_vars

(***************************************************************************)
(* Two handle_new_block tasks spawned by the listener run concurrently,    *)
(* while the queue is filled by the messages of the non-paying client.     *)
(***************************************************************************)
InitTasks == InitWith({"c1"}, {1, 2})

NextTasks ==
    \/ \E c \in Conns : RejectSubmitProof(c)
    \/ \E c \in Conns : handle_nonpaying_msg(c)
    \/ \E c \in Conns : Return(c)
    \/ NewBlock
    \/ Resubscribe
    \/ \E t \in Tasks : handle_new_block(t)
    \/ \E t \in Tasks : is_batch_ready(t)
    \/ \E t \in Tasks : finalize_batch(t)
    \/ \E t \in Tasks : submit_batch(t)
    \/ \E t \in Tasks : reset_posting_batch(t)

SpecTasks == InitTasks /\ [][NextTasks]_vars

(***************************************************************************)
(* The finalizer observed: every message is handled from its first check   *)
(* to its end in one step, and the steps of handle_new_block that write to *)
(* sinks leave in obs the result of submit_batch and the messages written. *)
(* A message that fails one of the first checks or comes from an address   *)
(* with unlocked funds changes nothing here and is left out.               *)
(***************************************************************************)
\* one message per signer of those that pass the first checks: of a passing
\* message the handler reads on only the signer, the size, the nonce and the
\* max_fee
PassingEnvelopes(disabled) ==
    LET passing == {x \in Envelopes : admission_prefix(x, disabled) = "pass"}
    IN  {CHOOSE x \in passing : x.signer = a : a \in {x.signer : x \in passing}}

\* a connection's message is handled; the nonce of the signer is read from the
\* chain only when the signer pays and has no user state, and the max_fee of
\* the non-paying principal is not read
Admit(c) ==
    /\ conn[c].pc = "idle"
    /\ \E e \in PassingEnvelopes(disabled_verifiers) :
          /\ (is_nonpaying(e.signer) /\ contains_key(user_states, ReplacementAddress))
                => user_states[ReplacementAddress].proof_count < MaxProofCount
          /\ \E in \in [m : {e}, nonce : 0..MaxNonce,
                         max_fee : IF is_nonpaying(e.signer)
                                   THEN {DEFAULT_MAX_FEE_PER_PROOF} ELSE MaxFees,
                         unlocked : {FALSE},
                         ethereum_user_nonce :
                             NonceReads(~is_nonpaying(e.signer)
                                            /\ ~contains_key(user_states, e.signer)),
                         user_balance : Balances \cup {RpcError}] :
                \E out \in {handle_submit_proof_msg(batch_queue, user_states,
                                                    disabled_verifiers, c, in)} :
                   /\ batch_queue' = out.queue
                   /\ user_states' = out.states
    /\ UNCHANGED <<chainVars, conn, tb, obs>>

handle_new_block_observed(t) ==
    /\ task[t].pc = "start"
    /\ \E gas_price \in GasPrices \cup {RpcError},
          new_disable_verifiers \in VerifierBitmaps \cup {RpcError} :
          \E nonce_read \in NonceReads(new_disable_verifiers \notin {RpcError, disabled_verifiers}) :
             handle_new_block_reading(t, gas_price, new_disable_verifiers, nonce_read,
                 IF gas_price # RpcError /\ new_disable_verifiers \notin {RpcError, disabled_verifiers}
                 THEN [outcome |-> "-", sent |-> BatchResetMessages(batch_queue),
                       run |-> <<>>]
                 ELSE NoObs)

submit_batch_observed(t) ==
    /\ task[t].pc = "submit"
    /\ \E run \in SubmitRuns :
          \E outcome \in {submit_batch_result(run)} :
          \E nonce_read \in NonceReads(outcome # "Ok" /\ flushes_on(outcome)) :
             submit_batch_with(t, outcome, nonce_read,
                 [outcome |-> outcome,
                  sent |-> IF outcome = "Ok"
                           THEN send_batch_inclusion_data_responses(task[t].batch)
                           ELSE IF flushes_on(outcome) THEN BatchResetMessages(batch_queue)
                           ELSE {},
                  run |-> run])

InitFinalizer == InitWith({"c1"}, {1})

NextFinalizer ==
    \/ \E c \in Conns : Admit(c)
    \/ NewBlock
    \/ Resubscribe
    \/ \E t \in Tasks : handle_new_block_observed(t)
    \/ \E t \in Tasks : is_batch_ready(t)
    \/ \E t \in Tasks : finalize_batch(t)
    \/ \E t \in Tasks : submit_batch_observed(t)
    \/ \E t \in Tasks : reset_posting_batch(t)

SpecFinalizer == InitFinalizer /\ [][NextFinalizer]_vars

(***************************************************************************)
(* try_build_batch on its own: a queue is filled and emptied by push and   *)
(* remove, and try_build_batch is applied to a copy of it.                 *)
(***************************************************************************)
NoTB == [called |-> FALSE, order |-> <<>>, gas_price |-> 0, max_bytes |-> 0,
         max_qty |-> 0, result |-> BatchCostTooHigh]

BuildPush ==
    /\ ~tb.called
    /\ Cardinality(batch_queue) < MaxBuildLen
    /\ \E sender \in BuildSenders, nonce \in 0..MaxNonce, max_fee \in BuildFees,
          size \in BuildSizes :
          LET entry == BatchQueueEntry_new(sender, nonce, max_fee, size, "c1")
          IN  /\ ~queue_contains(batch_queue, entry)
              /\ batch_queue' = queue_push(batch_queue, entry,
                                            BatchQueueEntryPriority_new(max_fee, nonce))
    /\ UNCHANGED <<user_states, posting_batch, last_uploaded_batch_block,
                   disabled_verifiers, last_seen_block, conn, task, tb, obs>>

BuildRemove ==
    /\ ~tb.called
    /\ \E x \in batch_queue : batch_queue' = queue_remove(batch_queue, x.entry)
    /\ UNCHANGED <<user_states, posting_batch, last_uploaded_batch_block,
                   disabled_verifiers, last_seen_block, conn, task, tb, obs>>

BuildTry ==
    /\ ~tb.called
    /\ \E order \in pop_orders(batch_queue), gas_price \in BuildGasPrices,
          max_bytes \in BuildMaxBytes, max_qty \in BuildMaxQty :
          tb' = [called |-> TRUE, order |-> order, gas_price |-> gas_price,
                 max_bytes |-> max_bytes, max_qty |-> max_qty,
                 result |-> try_build_batch(order, gas_price, max_bytes, max_qty,
                                            DEFAULT_CONSTANT_GAS_COST)]
    /\ UNCHANGED <<batch_queue, user_states, posting_batch, last_uploaded_batch_block,
                   disabled_verifiers, last_seen_block, conn, task, obs>>

BuildReturn ==
    /\ tb.called
    /\ tb' = NoTB
    /\ UNCHANGED <<batch_queue, user_states, posting_batch, last_uploaded_batch_block,
                   disabled_verifiers, last_seen_block, conn, task, obs>>

InitBuild ==
    /\ batch_queue = {}
    /\ user_states = <<>>
    /\ posting_batch = FALSE
    /\ last_uploaded_batch_block = 0
    /\ disabled_verifiers = 0
    /\ last_seen_block = 0
    /\ conn = <<>>
    /\ task = <<>>
    /\ tb = NoTB
    /\ obs = NoObs

NextBuild == BuildPush \/ BuildRemove \/ BuildTry \/ BuildReturn

SpecBuild == InitBuild /\ [][NextBuild]_vars

(***************************************************************************)
(* Properties of try_build_batch and of the priority order (SpecBuild).    *)
(***************************************************************************)
\* the batches obtainable from a pop order by removing its first entries
Suffixes(order) == {SubSeq(order, k, Len(order)) : k \in 1..Len(order)}

\* the three bounds of a batch, stated from their definitions
Feasible(batch, gas_price, max_bytes, max_qty) ==
    LET L == Len(batch)
        fee_per_proof ==
            ((DEFAULT_CONSTANT_GAS_COST + ADDITIONAL_SUBMISSION_GAS_COST_PER_PROOF * L)
                \div L) * gas_price
    IN  /\ \A i \in 1..L : fee_per_proof <= batch[i].max_fee
        /\ SumSizes(batch) + 9 <= max_bytes
        /\ L <= max_qty

FeasibleSuffixes ==
    {b \in Suffixes(tb.order) : Feasible(b, tb.gas_price, tb.max_bytes, tb.max_qty)}

\* C5 (peel optimality): the batch try_build_batch returns is obtained from the
\* queue by removing the first entries of its pop order, satisfies the fee
\* bound for every entry, the byte bound (sizes plus 9) and the quantity
\* bound, and no longer batch of that form satisfies them; when it returns
\* BatchCostTooHigh no batch of that form satisfies them.
C5_PeelOptimality ==
    tb.called =>
        IF tb.result.ok
        THEN /\ tb.result.batch \in FeasibleSuffixes
             /\ \A b \in FeasibleSuffixes : Len(b) <= Len(tb.result.batch)
        ELSE FeasibleSuffixes = {}

\* a batch was returned after entries were peeled, and another call found none
C5_Witness ==
    /\ tb.called
    /\ tb.result.ok
    /\ Len(tb.result.batch) >= 2
    /\ Len(tb.result.batch) < Len(tb.order)

\* lower max_fee first and, of equal max_fee and different nonce, higher nonce
\* first
HigherNonceFirst(s) ==
    \A i, j \in 1..Len(s) :
        i < j =>
            /\ s[i].max_fee <= s[j].max_fee
            /\ (s[i].max_fee = s[j].max_fee /\ s[i].nonce # s[j].nonce)
                  => s[i].nonce > s[j].nonce

\* C7 (priority order): in the pop order of the queue and in the output of
\* try_build_batch an entry of lower max_fee comes before one of higher
\* max_fee, and of two entries of equal max_fee and different nonce the one of
\* higher nonce comes first.
C7_PriorityOrder ==
    tb.called =>
        /\ HigherNonceFirst(tb.order)
        /\ tb.result.ok => HigherNonceFirst(tb.result.batch)

\* a pop order and an output holding two entries of equal max_fee and
\* different nonce, and two of different max_fee
C7_Witness ==
    /\ tb.called
    /\ tb.result.ok
    /\ \E i, j \in 1..Len(tb.result.batch) :
          /\ tb.result.batch[i].max_fee = tb.result.batch[j].max_fee
          /\ tb.result.batch[i].nonce # tb.result.batch[j].nonce
    /\ \E i, j \in 1..Len(tb.order) : tb.order[i].max_fee # tb.order[j].max_fee

\* C8 as stated: try_build_batch returns the remaining entries lowest max_fee
\* first and, among entries of the same max_fee, lowest nonce first.
C8_LowestNonceFirst ==
    (tb.called /\ tb.result.ok) =>
        \A i \in 1..(Len(tb.result.batch) - 1) :
            LET e == tb.result.batch[i]
                f == tb.result.batch[i + 1]
            IN  \/ e.max_fee < f.max_fee
                \/ e.max_fee = f.max_fee /\ e.nonce <= f.nonce

\* C8 amended (Merkle-leaf order): try_build_batch returns the remaining
\* entries lowest max_fee first and, among entries of the same max_fee,
\* highest nonce first.
C8_MerkleLeafOrder ==
    (tb.called /\ tb.result.ok) =>
        \A i \in 1..(Len(tb.result.batch) - 1) :
            LET e == tb.result.batch[i]
                f == tb.result.batch[i + 1]
            IN  \/ e.max_fee < f.max_fee
                \/ e.max_fee = f.max_fee /\ e.nonce >= f.nonce

\* a returned batch of three entries: two of one max_fee with their nonces
\* descending, then one of a higher max_fee
C8_Witness ==
    /\ tb.called
    /\ tb.result.ok
    /\ Len(tb.result.batch) = 3
    /\ tb.result.batch[1].max_fee = tb.result.batch[2].max_fee
    /\ tb.result.batch[1].nonce > tb.result.batch[2].nonce
    /\ tb.result.batch[2].max_fee < tb.result.batch[3].max_fee

(***************************************************************************)
(* Properties of the admission of messages and of the finalizer.           *)
(***************************************************************************)
\* the address whose user state a message is accounted to
SenderOf(msg) == IF is_nonpaying(msg.signer) THEN ReplacementAddress ELSE msg.signer

\* the handler of connection c finishes a message in this step
Completes(c) == conn[c].pc # "done" /\ conn'[c].pc = "done"

\* C1 (accounting conservation): in every state where no handler holds the
\* BatchState lock, for every address a of user_states, total_fees_in_queue
\* of a is the sum of max_fee over the queue entries whose sender is a and
\* proof_count of a is the number of those entries.
C1_AccountingConservation ==
    \A a \in DOMAIN user_states :
        /\ user_states[a].total_fees_in_queue = SumFees(EntriesOf(batch_queue, a))
        /\ user_states[a].proof_count = Cardinality(EntriesOf(batch_queue, a))

\* C2 (balance sufficiency): whenever a submission pushes an entry for sender a
\* (the paying signer, or the replacement address for the non-paying
\* principal), the balance read for a during that submission is at least
\* total_fees_in_queue of a before the push plus the max_fee of the new entry.
C2_BalanceSufficiency ==
    [][\A c \in Conns :
          (Completes(c) /\ Accepted(conn'[c].resp)) =>
              LET a == SenderOf(conn'[c].msg)
              IN  /\ a \in DOMAIN user_states
                  /\ conn'[c].balance >=
                        user_states[a].total_fees_in_queue + conn'[c].msg.max_fee]_vars

\* C3 (nonce monotonicity): an accepted submission from a whose nonce is at
\* most the nonce of an entry of a accepted earlier (and still queued) replaces
\* the queued entry of that same nonce, carries a higher max_fee than it,
\* creates no additional entry and leaves the nonce of a's user state in place.
C3_NonceMonotonicity ==
    [][\A c \in Conns :
          (Completes(c) /\ Accepted(conn'[c].resp)) =>
              LET msg == conn'[c].msg
                  a == SenderOf(msg)
                  before == EntriesOf(batch_queue, a)
                  after == EntriesOf(batch_queue', a)
              IN  (\E e \in before : msg.nonce <= e.nonce) =>
                      /\ \E e \in before : e.nonce = msg.nonce /\ e.max_fee < msg.max_fee
                      /\ Cardinality(after) = Cardinality(before)
                      /\ a \in DOMAIN user_states
                      /\ a \in DOMAIN user_states'
                      /\ user_states'[a].nonce = user_states[a].nonce]_vars

\* a handle_new_block task between setting posting_batch and resetting it
InFlight(t) == task[t].pc \in {"finalize", "submit", "reset"}

\* C4 (one submission in flight): of all the handle_new_block tasks at most one
\* is between setting posting_batch to true and resetting it.
C4_OneSubmissionInFlight == Cardinality({t \in Tasks : InFlight(t)}) <= 1

\* one task has built its batch and is about to finalize it while another,
\* whose block is late enough and which finds the queue non-empty, is about to
\* run is_batch_ready
C4_Witness ==
    \E t, u \in Tasks :
        /\ task[t].pc = "finalize"
        /\ task[u].pc = "is_batch_ready"
        /\ batch_queue # {}
        /\ task[u].block_number >= last_uploaded_batch_block + min_block_interval
        /\ posting_batch

\* C6 (no submitter is charged above their bid): the fee_per_proof that
\* submit_batch places in fee_params is at most the max_fee of every entry of
\* the batch it submits.
C6_FeeWithinBid ==
    \A t \in Tasks :
        task[t].pc = "submit" =>
            \A i \in 1..Len(task[t].batch) :
                task[t].fee_per_proof <= task[t].batch[i].max_fee

\* a batch of two or more entries is being submitted while the queue holds an
\* entry whose max_fee is below the fee of the batch
C6_Witness ==
    \E t \in Tasks :
        /\ task[t].pc = "submit"
        /\ Len(task[t].batch) >= 2
        /\ \E x \in batch_queue : x.entry.max_fee < task[t].fee_per_proof

InBatch(batch, sender, nonce) ==
    \E i \in 1..Len(batch) : batch[i].sender = sender /\ batch[i].nonce = nonce

C10_FeeLimitMonotonicity ==
    \A a \in DOMAIN user_states :
        \A e \in EntriesOf(batch_queue, a) :
            user_states[a].last_max_fee_limit <= e.max_fee

\* a replacement was accepted for a sender with two queued entries, and the
\* limit stayed at the lower max_fee
C10_Witness ==
    \E c \in Conns :
        /\ conn[c].pc = "done"
        /\ conn[c].resp = "Replaced"
        /\ contains_key(user_states, conn[c].msg.signer)
        /\ Cardinality(EntriesOf(batch_queue, conn[c].msg.signer)) = 2
        /\ user_states[conn[c].msg.signer].last_max_fee_limit < conn[c].msg.max_fee

\* C11 (nonce bound): every queue entry whose sender a has a user state has a
\* nonce strictly less than user_states[a].nonce, whichever path admitted it.
C11_NonceBound ==
    \A x \in batch_queue :
        contains_key(user_states, x.entry.sender) =>
            x.entry.nonce < user_states[x.entry.sender].nonce

\* C12 (block subscription dedup): no block number is handed to
\* handle_new_block twice; in particular no two tasks run handle_new_block
\* for the same block number.
C12_BlockHandledOnce ==
    \A t, u \in Tasks :
        (t # u /\ task[t].block_number # 0) => task[t].block_number # task[u].block_number

Entries(queue) == {x.entry : x \in queue}

BatchEntries(batch) == {batch[i] : i \in 1..Len(batch)}

\* the step of a task in which finalize_batch handles the given result of
\* submit_batch
Submitted(t, outcome) ==
    task[t].pc = "submit" /\ task'[t].pc = "reset" /\ obs'.outcome = outcome

\* C13 (successful submission): when create_new_task has succeeded, the entries
\* that leave the queue are exactly the entries of the submitted batch (an
\* entry replaced while the submission was in flight stays), BatchInclusion is
\* written to the sink of each of them, and proof_count, last_max_fee_limit
\* and total_fees_in_queue of every user are those of the residual queue.
C13_RemovesExactlySubmitted ==
    [][\A t \in Tasks :
          Submitted(t, "Ok") =>
              /\ Entries(batch_queue) \ Entries(batch_queue') = BatchEntries(task[t].batch)
              /\ obs'.sent = {SinkMessage(e.sink, "BatchInclusion") :
                                 e \in BatchEntries(task[t].batch)}
              /\ \A a \in DOMAIN user_states' :
                    /\ user_states'[a].proof_count = Cardinality(EntriesOf(batch_queue', a))
                    /\ user_states'[a].last_max_fee_limit = MinFee(EntriesOf(batch_queue', a))
                    /\ user_states'[a].total_fees_in_queue = SumFees(EntriesOf(batch_queue', a))]_vars

\* the step in which the handler of c, holding a message of a known sender
\* with a nonce below the sender's user nonce, gets past the reads of the
\* balance and answers from handle_replacement_message
AnswersReplacement(c) ==
    /\ conn[c].pc = "validate" /\ conn'[c].pc = "done"
    /\ contains_key(user_states, conn[c].msg.signer)
    /\ conn[c].msg.nonce < user_states[conn[c].msg.signer].nonce
    /\ conn'[c].resp \notin {"EthRpcError", "InsufficientBalance"}

\* C14 (replacement rejection): a SubmitProof with a nonce below the sender's
\* user nonce is answered InvalidNonce when the queue has no entry with that
\* (sender, nonce), and InvalidReplacementMessage when its max_fee is lower
\* than or equal to the max_fee of that entry; in both cases the queue and
\* the user states are left as they were.
C14_ReplacementRejection ==
    [][\A c \in Conns :
          AnswersReplacement(c) =>
              LET msg == conn[c].msg
                  found == get_entry(batch_queue, msg.signer, msg.nonce)
              IN  /\ found = {} =>
                        /\ conn'[c].resp = "InvalidNonce"
                        /\ UNCHANGED <<batch_queue, user_states>>
                  /\ \A e \in found :
                        msg.max_fee <= e.max_fee =>
                            /\ conn'[c].resp = "InvalidReplacementMessage"
                            /\ UNCHANGED <<batch_queue, user_states>>]_vars

\* the step in which the handler of c accepts a replacement
AcceptsReplacement(c) ==
    conn[c].pc = "validate" /\ conn'[c].pc = "done" /\ conn'[c].resp = "Replaced"

\* C15 (accepted replacement): when a replacement for (sender, nonce) is
\* accepted, the old entry leaves the queue and an entry with the new max_fee
\* and the priority (new max_fee, nonce) enters it, the rest of the queue, the
\* queue length, the sender's proof_count and nonce stay as they were,
\* total_fees_in_queue grows by the new max_fee minus the old one, and
\* last_max_fee_limit is the minimum max_fee of the sender's queue entries.
C15_AcceptedReplacement ==
    [][\A c \in Conns :
          AcceptsReplacement(c) =>
              LET msg == conn[c].msg
                  a == msg.signer
                  old == {x \in batch_queue :
                             x.entry.sender = a /\ x.entry.nonce = msg.nonce}
                  new == {x \in batch_queue' :
                             x.entry.sender = a /\ x.entry.nonce = msg.nonce}
              IN  /\ Cardinality(old) = 1 /\ Cardinality(new) = 1
                  /\ batch_queue' \ new = batch_queue \ old
                  /\ Cardinality(batch_queue') = Cardinality(batch_queue)
                  /\ \A x \in new :
                        /\ x.entry.max_fee = msg.max_fee
                        /\ x.priority = BatchQueueEntryPriority_new(msg.max_fee, msg.nonce)
                  /\ user_states'[a].proof_count = user_states[a].proof_count
                  /\ user_states'[a].nonce = user_states[a].nonce
                  /\ \A x \in old :
                        user_states'[a].total_fees_in_queue =
                            user_states[a].total_fees_in_queue
                                + (msg.max_fee - x.entry.max_fee)
                  /\ user_states'[a].last_max_fee_limit =
                        MinFee({x.entry : x \in {y \in batch_queue' : y.entry.sender = a}})]_vars

\* a replacement of one of two queued entries of a sender has been accepted
C15_Witness ==
    \E c \in Conns :
        /\ conn[c].pc = "done" /\ conn[c].resp = "Replaced"
        /\ conn[c].msg.max_fee = 2000000
        /\ contains_key(user_states, conn[c].msg.signer)
        /\ user_states[conn[c].msg.signer].proof_count = 2
        /\ user_states[conn[c].msg.signer].last_max_fee_limit = 600000

\* the step in which the handler of c answers a message of a known paying
\* sender whose nonce is above the sender's user nonce
AnswersNonceSkip(c) ==
    /\ conn[c].pc = "validate" /\ conn'[c].pc = "done"
    /\ contains_key(user_states, conn[c].msg.signer)
    /\ conn[c].msg.nonce > user_states[conn[c].msg.signer].nonce

Submission(signer, nonce, max_fee) ==
    [m |-> CHOOSE x \in Envelopes : x.signer = signer /\ admission_prefix(x, 0) = "pass",
     nonce |-> nonce, max_fee |-> max_fee, unlocked |-> FALSE,
     ethereum_user_nonce |-> 0,
     user_balance |-> CHOOSE b \in Balances : \A x \in Balances : x <= b]

After(s, in) ==
    LET out == handle_submit_proof_msg(s.queue, s.states, 0, "c1", in)
    IN  [queue |-> out.queue, states |-> out.states]

LowFee == CHOOSE f \in MaxFees : \A x \in MaxFees : f <= x
HighFee == CHOOSE f \in MaxFees : \A x \in MaxFees : x <= f

\* the batcher after construction, and after one or two accepted submissions
AdmissionStates ==
    LET started == [queue |-> {},
                    states |-> [a \in {ReplacementAddress} |-> UserState_new(0)]]
        high == After(started, Submission("A", 0, HighFee))
        low == After(started, Submission("A", 0, LowFee))
    IN  {started, high, low,
         After(high, Submission("A", 1, LowFee)),
         After(started, Submission(NonPayingAddress, 0, HighFee))}

InitAdmission ==
    /\ \E s \in AdmissionStates : batch_queue = s.queue /\ user_states = s.states
    /\ posting_batch = FALSE
    /\ last_uploaded_batch_block = 0
    /\ disabled_verifiers \in VerifierBitmaps
    /\ last_seen_block = 0
    /\ conn = [c \in {"c1"} |-> IdleConn]
    /\ task = [t \in {1} |-> IdleTask]
    /\ tb = [called |-> FALSE, order |-> <<>>, gas_price |-> 0, max_bytes |-> 0,
             max_qty |-> 0, result |-> BatchCostTooHigh]
    /\ obs = NoObs

SubmitProof(c) ==
    /\ conn[c].pc = "idle"
    /\ \E in \in AdmissionInputs :
          \E out \in {handle_submit_proof_msg(batch_queue, user_states,
                                               disabled_verifiers, c, in)} :
             /\ batch_queue' = out.queue
             /\ user_states' = out.states
             /\ conn' = [conn EXCEPT ![c] = [pc |-> "done", msg |-> in,
                                             balance |-> in.user_balance,
                                             resp |-> out.resp]]
    /\ UNCHANGED <<chainVars, tb, obs>>

NextAdmission == \E c \in Conns : SubmitProof(c)

SpecAdmission == InitAdmission /\ [][NextAdmission]_vars

\* the user state the checks over the user state see: the cached one, or the
\* one inserted with the nonce read from the chain
SeenUserState(states, in) ==
    IF contains_key(states, in.m.signer) THEN states[in.m.signer]
    ELSE UserState_new(in.ethereum_user_nonce)

\* the admission checks in the order the specification gives them, each with
\* whether the input fails it and the response of its failure; the checks
\* after the non-paying short-circuit are those of a paying signer
AdmissionChecks(states, disabled, in) ==
    LET m == in.m
        paying == m.signer # NoSigner /\ ~is_nonpaying(m.signer)
        known == contains_key(states, m.signer) \/ in.ethereum_user_nonce # RpcError
        seen == SeenUserState(states, in)
        Check(fails, resp) == [fails |-> fails, resp |-> resp]
    IN  << Check(m.chain_id # configured_chain_id, "InvalidChainId"),
           Check(m.payment_service_addr # payment_service_address,
                 "InvalidPaymentServiceAddress"),
           Check(m.size > max_proof_size, "ProofTooLarge"),
           Check(m.signer = NoSigner, "InvalidSignature"),
           Check(pre_verification_is_enabled
                     /\ is_verifier_disabled(disabled, m.proving_system),
                 "InvalidProof(DisabledVerifier)"),
           Check(pre_verification_is_enabled /\ ~m.proof_ok, "InvalidProof(RejectedProof)"),
           Check(FALSE, "-"),
           Check(paying /\ in.unlocked, "InsufficientBalance"),
           Check(paying /\ ~known, "EthRpcError"),
           Check(paying /\ in.user_balance = RpcError, "EthRpcError"),
           Check(paying /\ known /\ in.user_balance # RpcError
                     /\ in.user_balance < seen.total_fees_in_queue + in.max_fee,
                 "InsufficientBalance"),
           Check(paying /\ known /\ in.nonce > seen.nonce, "InvalidNonce"),
           Check(paying /\ known /\ in.nonce = seen.nonce
                     /\ in.max_fee > seen.last_max_fee_limit,
                 "InvalidMaxFee") >>

FailingChecks(checks) == {k \in DOMAIN checks : checks[k].fails}

\* C17 (admission order): a SubmitProof that fails one or several admission
\* checks is answered with the response of the earliest failing check in the
\* order chain id, payment-service address, proof size, signature, disabled
\* verifier, proof verification, non-paying short-circuit, balance locked,
\* user state present, balance read and sufficient, nonce, max-fee limit, and
\* the handler ends with the queue as it was.
C17_AdmissionOrder ==
    [][\A c \in Conns :
          conn[c].pc = "idle" /\ conn'[c].pc = "done" =>
              LET checks == AdmissionChecks(user_states, disabled_verifiers, conn'[c].msg)
                  failing == FailingChecks(checks)
              IN  failing # {} =>
                      /\ \E k \in failing :
                            /\ \A j \in failing : k <= j
                            /\ conn'[c].resp = checks[k].resp
                      /\ batch_queue' = batch_queue]_vars

\* a message with a nonce above the user nonce and a balance that does not
\* cover its max_fee has been answered for the balance, the earlier check
C17_Witness ==
    \E c \in Conns :
        /\ conn[c].pc = "done" /\ conn[c].resp = "InsufficientBalance"
        /\ ~conn[c].msg.unlocked
        /\ conn[c].msg.user_balance = 0
        /\ contains_key(user_states, conn[c].msg.m.signer)
        /\ conn[c].msg.nonce > user_states[conn[c].msg.m.signer].nonce

(***************************************************************************)
(* The scenario of the sequential submitter.  One address submits its      *)
(* nonces in order, each with a max_fee not above the one before; a block  *)
(* tick applies try_build_batch to a copy of the queue with the gas price  *)
(* of the scenario, large limits and the constant gas cost of the batcher. *)
(* Fees and the gas price are in wei.                                      *)
(***************************************************************************)
\* the max fees of the scenario by nonce, in wei, and max fees that cover
\* the fee of a batch
ScenarioFees == <<100, 90, 80>>
FundedFees == <<1000000, 900000, 800000>>
ScenarioGasPrices == {1}
ScenarioMaxBytes == {CBOR_ARRAY_MAX_OVERHEAD + 100}
ScenarioMaxQty == {100}

Range(s) == {s[i] : i \in DOMAIN s}

ScenarioPush ==
    /\ ~tb.called
    /\ Cardinality(batch_queue) < Len(ScenarioFees)
    /\ \E max_fee \in Range(ScenarioFees) \cup Range(FundedFees), size \in BuildSizes :
          LET nonce == Cardinality(batch_queue)
              entry == BatchQueueEntry_new("A", nonce, max_fee, size, "c1")
          IN  /\ max_fee <= MinFee(EntriesOf(batch_queue, "A"))
              /\ batch_queue' = queue_push(batch_queue, entry,
                                            BatchQueueEntryPriority_new(max_fee, nonce))
    /\ UNCHANGED <<user_states, posting_batch, last_uploaded_batch_block,
                   disabled_verifiers, last_seen_block, conn, task, tb, obs>>

ScenarioTick ==
    /\ ~tb.called
    /\ \E order \in pop_orders(batch_queue), gas_price \in ScenarioGasPrices,
          max_bytes \in ScenarioMaxBytes, max_qty \in ScenarioMaxQty :
          tb' = [called |-> TRUE, order |-> order, gas_price |-> gas_price,
                 max_bytes |-> max_bytes, max_qty |-> max_qty,
                 result |-> try_build_batch(order, gas_price, max_bytes, max_qty,
                                            constant_gas_cost)]
    /\ UNCHANGED <<batch_queue, user_states, posting_batch, last_uploaded_batch_block,
                   disabled_verifiers, last_seen_block, conn, task, obs>>

NextScenario == ScenarioPush \/ ScenarioTick \/ BuildReturn

SpecScenario == InitBuild /\ [][NextScenario]_vars

\* the queue holds exactly the entries (A, nonce i - 1, fees[i])
QueueHasFees(fees) ==
    {[nonce |-> x.entry.nonce, max_fee |-> x.entry.max_fee] : x \in batch_queue}
        = {[nonce |-> i - 1, max_fee |-> fees[i]] : i \in DOMAIN fees}

\* the batch lists the entries of the given fees from the last nonce to the first
BatchInScenarioOrder(batch, fees) ==
    /\ Len(batch) = Len(fees)
    /\ \A i \in DOMAIN fees :
          /\ batch[i].nonce = Len(fees) - i
          /\ batch[i].max_fee = fees[Len(fees) + 1 - i]

\* C18 as stated (scenario 'sequential submitter'): with the entries of one
\* address at nonces 0, 1, 2 and max fees 100, 90, 80 wei, a gas price of 1
\* and large limits, the tick yields a batch of all three in the order
\* (80, nonce 2), (90, nonce 1), (100, nonce 0).
C18_SequentialSubmitter ==
    tb.called /\ QueueHasFees(ScenarioFees) =>
        tb.result.ok /\ BatchInScenarioOrder(tb.result.batch, ScenarioFees)

\* C18 (scenario 'sequential submitter'), amended: with max fees 100, 90, 80
\* wei the tick yields no batch, try_build_batch returns BatchCostTooHigh,
\* the fee per proof of a batch of three being above every max fee; with
\* max fees that cover it, 1000000, 900000, 800000 wei, the tick yields the
\* batch of all three from nonce 2 to nonce 0.
C18_SequentialSubmitterFunded ==
    /\ tb.called /\ QueueHasFees(ScenarioFees) =>
          /\ tb.result = BatchCostTooHigh
          /\ \A i \in DOMAIN ScenarioFees :
                calculate_fee_per_proof(Len(ScenarioFees), tb.gas_price, constant_gas_cost)
                    > ScenarioFees[i]
    /\ tb.called /\ QueueHasFees(FundedFees) =>
          tb.result.ok /\ BatchInScenarioOrder(tb.result.batch, FundedFees)

\* the tick has run on the three entries of the scenario
C18_Witness ==
    tb.called /\ QueueHasFees(ScenarioFees) /\ tb.result = BatchCostTooHigh

\* the step in which handle_new_block of task t reads a bitmap of disabled
\* verifiers that differs from the cached one
VerifierFlip(t) ==
    task[t].pc = "start" /\ disabled_verifiers' # disabled_verifiers

\* C19 (verifier flip): when handle_new_block reads a bitmap of disabled
\* verifiers that differs from the cached one, the cache takes the new
\* bitmap, BatchReset is sent to the sink of every queued entry and to no
\* other, the queue is left empty and the user states hold nothing but the
\* replacement address, re-loaded with a nonce read from the chain, and the
\* task goes on to is_batch_ready with no batch built yet.
C19_VerifierFlip ==
    [][\A t \in Tasks :
          VerifierFlip(t) =>
              /\ disabled_verifiers' \in VerifierBitmaps
              /\ obs'.sent = {SinkMessage(x.entry.sink, "BatchReset") : x \in batch_queue}
              /\ batch_queue' = {}
              /\ DOMAIN user_states' \subseteq {ReplacementAddress}
              /\ \A a \in DOMAIN user_states' :
                    \E n \in ChainNonces : user_states'[a] = UserState_new(n)
              /\ task'[t].pc = "is_batch_ready" /\ task'[t].batch = <<>>]_vars

\* a verifier flip has flushed a queue that held entries, and no paying user
\* is left in the user states
C19_Witness ==
    /\ obs.outcome = "-" /\ obs.sent # {}
    /\ batch_queue = {}
    /\ \E t \in Tasks : task[t].pc = "is_batch_ready"
    /\ ~contains_key(user_states, "A")

\* C20 (submission failure policy): when the submission of a batch fails for
\* an insufficient balance, the queue is emptied, BatchReset is sent to the
\* sink of every queued entry and the user states hold nothing but the
\* re-loaded replacement address; when it fails with any other error, the
\* queue and the user states are left exactly as they were and nothing is
\* sent, so that a later block can retry.
C20_SubmissionFailurePolicy ==
    [][\A t \in Tasks :
          /\ Submitted(t, "SubmissionInsufficientBalance") =>
                /\ batch_queue' = {}
                /\ obs'.sent = {SinkMessage(x.entry.sink, "BatchReset") : x \in batch_queue}
                /\ DOMAIN user_states' \subseteq {ReplacementAddress}
                /\ \A a \in DOMAIN user_states' :
                      \E n \in ChainNonces : user_states'[a] = UserState_new(n)
          /\ Submitted(t, "OtherError") =>
                /\ UNCHANGED <<batch_queue, user_states>>
                /\ obs'.sent = {}]_vars

\* a submission has failed with an error other than the insufficient balance
\* and its entries are still queued
C20_Witness ==
    /\ obs.outcome = "OtherError"
    /\ \E t \in Tasks : task[t].pc = "reset"
    /\ batch_queue # {}

\* the step in which submit_batch of task t returns because the simulation
\* of create_new_task reverted
SimulationReverts(t) ==
    /\ task[t].pc = "submit" /\ task'[t].pc = "reset"
    /\ obs'.run # <<>> /\ obs'.run[1] = "Reverted"

C22_ReceiptNotFoundFlushes ==
    [][\A t \in Tasks :
          Submitted(t, "ReceiptNotFoundError") => batch_queue' = {}]_vars

\* C22 (receipt-not-found policy), amended: when create_new_task ends with
\* ReceiptNotFound, after the simulation and the upload have succeeded, the
\* queue and the user states are left exactly as they were and nothing is
\* sent to a sink; the entries of the batch stay queued.
C22_ReceiptNotFoundKeepsQueue ==
    [][\A t \in Tasks :
          Submitted(t, "ReceiptNotFoundError") =>
              /\ obs'.run = <<"Ok", "Ok", "ReceiptNotFoundError">>
              /\ UNCHANGED <<batch_queue, user_states>>
              /\ obs'.sent = {}
              /\ batch_queue' # {}]_vars

\* create_new_task has ended with ReceiptNotFound and entries are queued
C22_Witness ==
    /\ obs.outcome = "ReceiptNotFoundError"
    /\ \E t \in Tasks : task[t].pc = "reset"
    /\ batch_queue # {}

(***************************************************************************)
(* The connections.  Each connection is served by handle_connection: the   *)
(* frames it receives are handled by handle_message one after the other    *)
(* until the client disconnects.  An observed frame records the user_error *)
(* label counted, the messages written and the sink they were written to.  *)
(***************************************************************************)
\* handle_message on a frame that cbor_deserialize rejects
handle_message_deserialize_error(c) ==
    /\ conn[c].pc = "idle"
    /\ obs' = [outcome |-> "deserialize_error", sent |-> {}, run |-> <<>>, sink |-> c]
    /\ UNCHANGED <<batch_queue, user_states, chainVars, conn, tb>>

\* handle_get_nonce_for_address_msg: the cached nonce, or the nonce read from
\* the chain, is sent to the client
handle_get_nonce_for_address_msg(c) ==
    /\ conn[c].pc = "idle"
    /\ \E address \in PayingUsers \cup {NonPayingAddress} :
          LET addr == IF is_nonpaying(address) THEN ReplacementAddress ELSE address
          IN  \E ethereum_user_nonce \in NonceReads(~contains_key(user_states, addr)) :
                 obs' = [outcome |-> "-",
                         sent |-> {SinkMessage(c,
                                      IF contains_key(user_states, addr) THEN "Nonce"
                                      ELSE IF ethereum_user_nonce = RpcError
                                           THEN "EthRpcError" ELSE "Nonce")},
                         run |-> <<>>, sink |-> c]
    /\ UNCHANGED <<batch_queue, user_states, chainVars, conn, tb>>

\* the client disconnects: the read loop of handle_connection ends
Disconnect(c) ==
    /\ conn[c].pc = "idle"
    /\ conn' = [conn EXCEPT ![c].pc = "closed"]
    /\ UNCHANGED <<batch_queue, user_states, chainVars, tb, obs>>

InitConnection == InitWith({"c1", "c2"}, {1})

NextConnection ==
    \/ \E c \in Conns : Admit(c)
    \/ \E c \in Conns : handle_message_deserialize_error(c)
    \/ \E c \in Conns : handle_get_nonce_for_address_msg(c)
    \/ \E c \in Conns : Disconnect(c)

SpecConnection == InitConnection /\ [][NextConnection]_vars

\* one client submits and disconnects while the finalizer runs
NextDisconnect ==
    \/ \E c \in Conns : Admit(c)
    \/ \E c \in Conns : Disconnect(c)
    \/ NewBlock
    \/ Resubscribe
    \/ \E t \in Tasks : handle_new_block(t)
    \/ \E t \in Tasks : is_batch_ready(t)
    \/ \E t \in Tasks : finalize_batch(t)
    \/ \E t \in Tasks : submit_batch(t)
    \/ \E t \in Tasks : reset_posting_batch(t)

SpecDisconnect == InitFinalizer /\ [][NextDisconnect]_vars

\* the step in which handle_message of c is given a frame that cannot be
\* deserialized
MalformedFrame(c) ==
    /\ conn[c].pc = "idle"
    /\ obs' # obs /\ obs'.outcome = "deserialize_error" /\ obs'.sink = c

\* C23 (malformed client frame): a frame that cannot be deserialized as a
\* ClientMessage is answered with a message on the sink of its connection,
\* is counted as a user error, and leaves the connection open.
C23_MalformedFrame ==
    [][\A c \in Conns :
          MalformedFrame(c) =>
              /\ \E m \in obs'.sent : m.sink = c
              /\ obs'.outcome = "deserialize_error"
              /\ conn'[c].pc = "idle"]_vars

\* the step is the end of submit_batch in a task whose batch holds the entry
SubmissionContaining(e) ==
    \E t \in Tasks :
        /\ task[t].pc = "submit" /\ task'[t].pc = "reset"
        /\ e \in BatchEntries(task[t].batch)

\* the step is a message handler's that leaves an entry with the sender and
\* the nonce of the entry in the queue
ReplacementOf(e) ==
    /\ task' = task
    /\ \E x \in batch_queue' : BatchQueueEntry_eq(x.entry, e)

\* the step is a finalizer's that leaves the queue empty
Flush ==
    /\ batch_queue' = {}
    /\ \E t \in Tasks : task[t].pc \in {"start", "submit"} /\ task'[t] # task[t]

\* C24 (queue entries persist): an entry leaves the queue only through a
\* submission of a batch that contains it, an accepted replacement for its
\* (sender, nonce), or a flush; the disconnect of a connection removes nothing.
C24_EntriesPersist ==
    [][/\ \A e \in Entries(batch_queue) \ Entries(batch_queue') :
             SubmissionContaining(e) \/ ReplacementOf(e) \/ Flush
       /\ \A c \in Conns :
             conn[c].pc # "closed" /\ conn'[c].pc = "closed" => batch_queue' = batch_queue]_vars

(***************************************************************************)
(* The queue on its own: entries of two senders are pushed, whether or not *)
(* an equal entry is queued, removed and popped; obs records the last      *)
(* operation.                                                              *)
(***************************************************************************)
QueueFees == {2000000, 3000000}

QueuePush ==
    \E sender \in BuildSenders, nonce \in 0..MaxNonce, max_fee \in QueueFees :
       LET entry == BatchQueueEntry_new(sender, nonce, max_fee, 1, "c1")
       IN  /\ queue_contains(batch_queue, entry) \/ Cardinality(batch_queue) < MaxBuildLen
           /\ batch_queue' = queue_push(batch_queue, entry,
                                         BatchQueueEntryPriority_new(max_fee, nonce))
           /\ obs' = [outcome |-> "push", sent |-> {}, run |-> <<>>, entry |-> entry]
           /\ UNCHANGED <<user_states, posting_batch, last_uploaded_batch_block,
                          disabled_verifiers, last_seen_block, conn, task, tb>>

QueuePop ==
    \E x \in queue_peek(batch_queue) :
       /\ batch_queue' = batch_queue \ {x}
       /\ obs' = [outcome |-> "pop", sent |-> {}, run |-> <<>>, entry |-> x.entry]
       /\ UNCHANGED <<user_states, posting_batch, last_uploaded_batch_block,
                      disabled_verifiers, last_seen_block, conn, task, tb>>

QueueRemove ==
    \E x \in batch_queue :
       /\ batch_queue' = queue_remove(batch_queue, x.entry)
       /\ obs' = [outcome |-> "remove", sent |-> {}, run |-> <<>>, entry |-> x.entry]
       /\ UNCHANGED <<user_states, posting_batch, last_uploaded_batch_block,
                      disabled_verifiers, last_seen_block, conn, task, tb>>

NextQueue == QueuePush \/ QueuePop \/ QueueRemove

SpecQueue == InitBuild /\ [][NextQueue]_vars

SameSenderAndNonce(e1, e2) == e1.sender = e2.sender /\ e1.nonce = e2.nonce

\* C25: two entries are equal exactly when they have the same sender and the
\* same nonce, the queue never holds two entries with the same (sender, nonce),
\* and a push of a (sender, nonce) that is already queued does not make the
\* queue longer.
C25_EntryIdentity ==
    [][/\ \A x, y \in batch_queue' :
             /\ BatchQueueEntry_eq(x.entry, y.entry) <=> SameSenderAndNonce(x.entry, y.entry)
             /\ SameSenderAndNonce(x.entry, y.entry) => x = y
       /\ (/\ obs'.outcome = "push"
           /\ \E x \in batch_queue : SameSenderAndNonce(x.entry, obs'.entry))
             => Cardinality(batch_queue') = Cardinality(batch_queue)]_vars

\* A (sender, nonce) that was queued with one max_fee has been pushed again with
\* another: the queue holds one item for it, with the priority of the second push.
C25_Witness ==
    /\ obs.outcome = "push"
    /\ \E x \in batch_queue :
          /\ SameSenderAndNonce(x.entry, obs.entry)
          /\ x.entry.max_fee # obs.entry.max_fee
          /\ x.priority.max_fee = obs.entry.max_fee
    /\ Cardinality(batch_queue) = 2

\* C26: the order in which the queue pops its entries is a total order on
\* (max_fee, nonce, sender) and does not depend on the order of the pushes: a
\* queue has one pop order, also when it holds two entries of different senders
\* with the same max_fee and the same nonce.
C26_DeterministicPopOrder == Cardinality(pop_orders(batch_queue)) = 1

\* C27: from the point where the user state is ensured to exist to the end of
\* the enqueue the handler holds the BatchState lock: while a handler is between
\* the two, no step of anything else (a flush, the removal of a batch, another
\* submission) changes the queue or the user states.
C27_AdmissionAtomicity ==
    [][\A c \in Conns :
          conn[c].pc = "validate" /\ conn'[c] = conn[c]
             => UNCHANGED <<batch_queue, user_states>>]_vars

\* the step of is_batch_ready that hands a batch to finalize_batch
ReachesBuilding(t) == task[t].pc = "is_batch_ready" /\ task'[t].pc = "finalize"

\* the step of finalize_batch that records the block of the batch, after which
\* submit_batch is called
ReachesSubmission(t) == task[t].pc = "finalize" /\ task'[t].pc = "submit"

\* C28: a cycle of handle_new_block gets to build a batch only when the queue is
\* not empty, its block is at least min_block_interval after the block of the
\* last batch and no batch is being posted; hence the block of a cycle that
\* reaches the submission is at least min_block_interval after the block of the
\* cycle that reached it before.
C28_FinalizerGating ==
    [][\A t \in Tasks :
          /\ ReachesBuilding(t) =>
                /\ batch_queue # {}
                /\ task[t].block_number >= last_uploaded_batch_block + min_block_interval
                /\ ~posting_batch
          /\ ReachesSubmission(t) =>
                /\ last_uploaded_batch_block' = task[t].block_number
                /\ last_uploaded_batch_block'
                      >= last_uploaded_batch_block + min_block_interval]_vars

\* One cycle has reached the submission of a batch for a block, and a second
\* cycle for the same block is at is_batch_ready with proofs in the queue.
C28_Witness ==
    \E t, u \in Tasks :
       /\ task[t].pc = "submit"
       /\ task[u].pc = "is_batch_ready"
       /\ task[u].block_number = last_uploaded_batch_block
       /\ batch_queue # {}

(***************************************************************************)
(* The cycle of a handle_new_block task to its end: the task is spawned on *)
(* the runtime and runs on, and every call it awaits returns, so a step of *)
(* the task that is enabled is taken.  finalize_batch may also fail before *)
(* it records the block, when the batch cannot be serialized or its Merkle *)
(* tree cannot be built.                                                   *)
(***************************************************************************)
\* finalize_batch returns a TaskCreationError before submit_batch is called
finalize_batch_failing(t) ==
    /\ task[t].pc = "finalize"
    /\ task' = [task EXCEPT ![t] = [IdleTask EXCEPT !.pc = "reset"]]
    /\ UNCHANGED <<batch_queue, user_states, posting_batch, last_uploaded_batch_block,
                   disabled_verifiers, last_seen_block, conn, tb, obs>>

TaskStep ==
    \E t \in Tasks :
       \/ finalize_batch(t)
       \/ finalize_batch_failing(t)
       \/ submit_batch(t)
       \/ reset_posting_batch(t)

NextRelease ==
    \/ \E c \in Conns : Admit(c)
    \/ NewBlock
    \/ Resubscribe
    \/ \E t \in Tasks : handle_new_block(t)
    \/ \E t \in Tasks : is_batch_ready(t)
    \/ \E t \in Tasks : finalize_batch(t)
    \/ \E t \in Tasks : finalize_batch_failing(t)
    \/ \E t \in Tasks : submit_batch(t)
    \/ \E t \in Tasks : reset_posting_batch(t)

SpecRelease == InitFinalizer /\ [][NextRelease]_vars /\ WF_vars(TaskStep)

\* C29: whenever the posting flag is set it is reset later, whatever the outcome
\* of the cycle: a failure of finalize_batch before the submission, a failure of
\* the simulation, of the upload or of create_new_task, a cancelled transaction
\* or a success.
C29_FlagReleased == posting_batch ~> ~posting_batch

\* finalize_batch has failed before it recorded a block, and the flag is still
\* set: handle_new_block is about to reset it.
C29_Witness ==
    /\ posting_batch
    /\ last_uploaded_batch_block = 0
    /\ \E t \in Tasks : task[t].pc = "reset"

\* is_batch_ready of t is past its three checks and the loop of try_build_batch
\* pops every entry of the copy of the queue
PeelingEmptiesCopy(t) ==
    /\ task[t].pc = "is_batch_ready"
    /\ ~batch_not_ready(Cardinality(batch_queue), task[t].block_number,
                        last_uploaded_batch_block, posting_batch)
    /\ \A order \in pop_orders(batch_queue) :
          peel(order, calculate_batch_size(order), task[t].gas_price, max_batch_byte_size,
               max_batch_proof_qty, constant_gas_cost) = <<>>

\* C30: when the loop of try_build_batch empties the copy of the queue it fails
\* with BatchCostTooHigh, and the cycle returns with nothing submitted (no batch
\* handed over, the posting flag down, the block of the last batch as it was)
\* and with the shared queue and the user states as they were; no step of
\* is_batch_ready removes anything from the shared queue.
C30_NoFeasibleBatch ==
    [][\A t \in Tasks :
          /\ task[t].pc = "is_batch_ready" /\ task'[t] # task[t]
                => UNCHANGED <<batch_queue, user_states>>
          /\ PeelingEmptiesCopy(t) /\ task'[t] # task[t] =>
                /\ \A order \in pop_orders(batch_queue) :
                      try_build_batch(order, task[t].gas_price, max_batch_byte_size,
                                      max_batch_proof_qty, constant_gas_cost)
                         = BatchCostTooHigh
                /\ task'[t] = IdleTask
                /\ ~posting_batch'
                /\ UNCHANGED <<batch_queue, user_states, last_uploaded_batch_block>>]_vars

\* A cycle is about to build a batch from a queue in which no entry pays the
\* fee per proof.
C30_Witness == \E t \in Tasks : PeelingEmptiesCopy(t)

(***************************************************************************)
(* The paying client on its own: the steps of handle_submit_proof_msg for  *)
(* the messages of paying addresses, interleaved with the block listener   *)
(* and a handle_new_block task.                                            *)
(***************************************************************************)
NextPaying ==
    \/ \E c \in Conns : ReceivePayingMsg(c)
    \/ \E c \in Conns : InsertUserState(c)
    \/ \E c \in Conns : ValidateAndAdd(c)
    \/ \E c \in Conns : Return(c)
    \/ NewBlock
    \/ Resubscribe
    \/ \E t \in Tasks : handle_new_block(t)
    \/ \E t \in Tasks : is_batch_ready(t)
    \/ \E t \in Tasks : finalize_batch(t)
    \/ \E t \in Tasks : submit_batch(t)
    \/ \E t \in Tasks : reset_posting_batch(t)

SpecPaying == Init /\ [][NextPaying]_vars

\* the max fees of a sender's queue entries do not increase with the nonce
FeesNonIncreasing(queue) ==
    \A x, y \in queue :
       x.entry.sender = y.entry.sender /\ x.entry.nonce < y.entry.nonce
          => x.entry.max_fee >= y.entry.max_fee

\* the step in which the handler of c answers a message of a known paying
\* sender that has the sender's user nonce and a max_fee above the sender's
\* last_max_fee_limit
AnswersFeeAboveLimit(c) ==
    /\ conn[c].pc = "validate" /\ conn'[c].pc = "done"
    /\ contains_key(user_states, conn[c].msg.signer)
    /\ conn[c].msg.nonce = user_states[conn[c].msg.signer].nonce
    /\ conn[c].msg.max_fee > user_states[conn[c].msg.signer].last_max_fee_limit

ReceiptNotFoundRun == <<"Ok", "Ok", "ReceiptNotFoundError">>

\* create_new_task returns without a call of cancel_create_new_task_tx
create_new_task_without_cancel(t) ==
    /\ task[t].pc = "submit"
    /\ task' = [task EXCEPT ![t] = [IdleTask EXCEPT !.pc = "reset"]]
    /\ obs' = [outcome |-> "ReceiptNotFoundError", sent |-> {}, run |-> ReceiptNotFoundRun,
               canceled |-> <<>>]
    /\ UNCHANGED <<batch_queue, user_states, posting_batch, last_uploaded_batch_block,
                   disabled_verifiers, last_seen_block, conn, tb>>

\* create_new_task: the retries end with a ReceiptNotFoundError
create_new_task_receipt_not_found(t) ==
    /\ task[t].pc = "submit"
    /\ task' = [task EXCEPT ![t].pc = "cancel"]
    /\ obs' = [outcome |-> "-", sent |-> {}, run |-> ReceiptNotFoundRun, canceled |-> <<>>]
    /\ UNCHANGED <<batch_queue, user_states, posting_batch, last_uploaded_batch_block,
                   disabled_verifiers, last_seen_block, conn, tb>>

\* cancel_create_new_task_tx(fee_params.gas_price), whatever its result, then
\* create_new_task, submit_batch and finalize_batch return the error
cancel_create_new_task_tx(t) ==
    /\ task[t].pc = "cancel"
    /\ \E outcome \in {submit_batch_result(obs.run)} :
          /\ obs' = [obs EXCEPT !.outcome = outcome,
                                !.canceled = Append(@, task[t].gas_price)]
          /\ IF flushes_on(outcome)
             THEN /\ batch_queue' = {}
                  /\ \E nonce_read \in NonceReads(TRUE) :
                        user_states' = flushed_user_states(nonce_read)
             ELSE UNCHANGED <<batch_queue, user_states>>
    /\ task' = [task EXCEPT ![t] = [IdleTask EXCEPT !.pc = "reset"]]
    /\ UNCHANGED <<posting_batch, last_uploaded_batch_block, disabled_verifiers,
                   last_seen_block, conn, tb>>

\* submit_batch on every other run
submit_batch_receipt_found(t) ==
    /\ task[t].pc = "submit"
    /\ \E run \in SubmitRuns \ {ReceiptNotFoundRun} :
          \E outcome \in {submit_batch_result(run)} :
          \E nonce_read \in NonceReads(outcome # "Ok" /\ flushes_on(outcome)) :
             submit_batch_with(t, outcome, nonce_read,
                 [outcome |-> outcome,
                  sent |-> IF outcome = "Ok"
                           THEN send_batch_inclusion_data_responses(task[t].batch)
                           ELSE IF flushes_on(outcome) THEN BatchResetMessages(batch_queue)
                           ELSE {},
                  run |-> run, canceled |-> <<>>])

NextCancel ==
    \/ \E c \in Conns : Admit(c)
    \/ NewBlock
    \/ Resubscribe
    \/ \E t \in Tasks : handle_new_block(t)
    \/ \E t \in Tasks : is_batch_ready(t)
    \/ \E t \in Tasks : finalize_batch(t)
    \/ \E t \in Tasks : create_new_task_receipt_not_found(t)
    \/ \E t \in Tasks : cancel_create_new_task_tx(t)
    \/ \E t \in Tasks : submit_batch_receipt_found(t)
    \/ \E t \in Tasks : reset_posting_batch(t)

SpecCancel == InitFinalizer /\ [][NextCancel]_vars

\* C32: when create_new_task ends with a receipt that is not found,
\* cancel_create_new_task_tx is run once, with the gas price of the batch, and
\* has ended when the posting flag is reset; the error returned to
\* finalize_batch is the ReceiptNotFoundError.  On every other run it is not
\* called.
C32_CancellationOnMissingReceipt ==
    [][\A t \in Tasks :
          /\ task[t].pc = "cancel" /\ task'[t].pc # "cancel" =>
                /\ posting_batch /\ posting_batch'
                /\ obs'.canceled = <<task[t].gas_price>>
                /\ obs'.outcome = "ReceiptNotFoundError"
                /\ task'[t].pc = "reset"
          /\ task[t].pc = "reset" /\ task'[t].pc # "reset" =>
                /\ Len(obs.canceled) = (IF obs.run = ReceiptNotFoundRun THEN 1 ELSE 0)
                /\ obs.run = ReceiptNotFoundRun => obs.outcome = "ReceiptNotFoundError"]_vars

\* cancel_create_new_task_tx has been run with the gas price of the batch and
\* the posting flag is still set.
C32_Witness ==
    /\ posting_batch
    /\ obs.run = ReceiptNotFoundRun
    /\ obs.outcome = "ReceiptNotFoundError"
    /\ Len(obs.canceled) = 1 /\ obs.canceled[1] > 0
    /\ \E t \in Tasks : task[t].pc = "reset"

\* C33: last_uploaded_batch_block is written only by the step in which the task
\* of the cycle has been created on chain, so that a cycle whose simulation,
\* upload or create_new_task fails leaves it as it was.
C33_LastUploadedAfterTaskCreation ==
    [][last_uploaded_batch_block' # last_uploaded_batch_block
          => \E t \in Tasks : Submitted(t, "Ok")]_vars

(***************************************************************************)
(* The locks.  Every handler of a connection and every handle_new_block    *)
(* task is a process that runs the lock operations of one path of its code *)
(* in order: it waits at the acquisition of a lock another process holds.  *)
(* conn[c] and task[t] hold what is left of the path (todo) and the locks  *)
(* the process holds (held).  The Mutexes are batch_state,                 *)
(* last_uploaded_batch_block, posting_batch and disabled_verifiers; the    *)
(* sink of a connection is taken for writing by whoever sends on it.       *)
(***************************************************************************)
LockConns == {"c1", "c2"}
LockTasks == {1, 2}

\* the lock of the sink of a connection, named as the connection
sink(c) == c

Acq(lock) == [op |-> "acq", locks |-> {lock}]
\* guards dropped together, at a drop or at the end of their scope
Rel(locks) == [op |-> "rel", locks |-> locks]

\* send_message on a sink
send_message_locks(c) == <<Acq(sink(c)), Rel({sink(c)})>>

\* a Mutex taken and released with no other lock taken in between
alone(lock) == <<Acq(lock), Rel({lock})>>

\* is_verifier_disabled
is_verifier_disabled_locks == alone("disabled_verifiers")

\* handle_get_nonce_for_address_msg
handle_get_nonce_for_address_msg_locks(c) == alone("batch_state") \o send_message_locks(c)

\* handle_submit_proof_msg: a check under the last lock fails, the lock is
\* dropped and the rejection is sent
submit_rejected_locks(c) == alone("batch_state") \o send_message_locks(c)

\* handle_replacement_message past the comparison of the fees: the sink of the
\* old entry, that of connection old, is closed under the BatchState lock;
\* the replacement is queued, or it is rejected after the lock is dropped
handle_replacement_message_locks(c, old, valid) ==
    <<Acq("batch_state"), Acq(sink(old)), Rel({sink(old)}), Rel({"batch_state"})>>
        \o (IF valid THEN <<>> ELSE send_message_locks(c))

\* a part of a handler or of a task: its lock operations, and the name of
\* the part
Part(pc, todo) == [pc |-> pc, todo |-> todo]

Finished == Part("idle", <<>>)

\* the parts of handle_message that can follow part pc on connection c
handler_next(c, pc) ==
    CASE pc = "idle" ->
            {Part("get_nonce", handle_get_nonce_for_address_msg_locks(c)),
             Part("submit", is_verifier_disabled_locks)}
      [] pc = "submit" ->
            {Part("nonpaying", alone("batch_state")),
             Part("is_user_in_state", alone("batch_state"))}
      [] pc = "is_user_in_state" ->
            {Part("insert", alone("batch_state")), Part("queued", alone("batch_state")),
             Part("rejected", submit_rejected_locks(c))}
                \cup {Part("replacement", handle_replacement_message_locks(c, old, valid)) :
                        old \in LockConns, valid \in BOOLEAN}
      [] pc = "insert" ->
            {Part("queued", alone("batch_state")),
             Part("rejected", submit_rejected_locks(c))}
      [] OTHER -> {Finished}

\* flush_queue_and_clear_nonce_cache with one queued entry, of connection c
flush_queue_and_clear_nonce_cache_locks(c) ==
    <<Acq("batch_state")>> \o send_message_locks(c) \o <<Rel({"batch_state"})>>

\* handle_new_block up to is_batch_ready: with a changed bitmap the queue is
\* flushed under the lock of disabled_verifiers
disabled_verifiers_locks(flush, c) ==
    IF flush
    THEN <<Acq("disabled_verifiers")>> \o flush_queue_and_clear_nonce_cache_locks(c)
             \o <<Rel({"disabled_verifiers"})>>
    ELSE alone("disabled_verifiers")

\* is_batch_ready taking the lock of posting_batch first
is_batch_ready_locks_posting_first(checks_posting) ==
    <<Acq("posting_batch"), Acq("batch_state"), Acq("last_uploaded_batch_block"),
      Rel({"batch_state", "last_uploaded_batch_block", "posting_batch"})>>

\* is_batch_ready: it returns after its first two checks, or takes the lock of
\* posting_batch as well
is_batch_ready_locks(checks_posting) ==
    IF checks_posting
    THEN <<Acq("batch_state"), Acq("last_uploaded_batch_block"), Acq("posting_batch"),
           Rel({"batch_state", "last_uploaded_batch_block", "posting_batch"})>>
    ELSE <<Acq("batch_state"), Acq("last_uploaded_batch_block"),
           Rel({"batch_state", "last_uploaded_batch_block"})>>

\* finalize_batch after submit_batch: the batch is removed and the responses
\* are sent ("Ok"), or the queue is flushed
finalize_batch_locks(result, c) ==
    IF result = "Ok" THEN alone("batch_state") \o send_message_locks(c)
    ELSE flush_queue_and_clear_nonce_cache_locks(c)

\* handle_new_block after finalize_batch, taking the BatchState lock under
\* the lock of posting_batch
reset_locks_taking_batch_state ==
    <<Acq("posting_batch")>> \o alone("batch_state") \o <<Rel({"posting_batch"})>>

\* handle_new_block after finalize_batch
reset_locks == alone("posting_batch")

\* the parts of handle_new_block that can follow part pc
task_next(pc) ==
    CASE pc = "idle" ->
            {Part("verifiers", disabled_verifiers_locks(flush, c)) :
                flush \in BOOLEAN, c \in LockConns}
      [] pc = "verifiers" ->
            {Part("not_ready", is_batch_ready_locks(FALSE)),
             Part("is_batch_ready", is_batch_ready_locks(TRUE))}
      [] pc = "is_batch_ready" ->
            {Finished, Part("finalize", alone("last_uploaded_batch_block"))}
      [] pc = "finalize" ->
            {Part("submitted", finalize_batch_locks(result, c)) :
                result \in {o \in SubmitOutcomes : o = "Ok" \/ flushes_on(o)},
                c \in LockConns}
                \cup {Part("reset", reset_locks)}
      [] pc = "submitted" -> {Part("reset", reset_locks)}
      [] OTHER -> {Finished}

NoPath == [pc |-> "idle", todo |-> <<>>, held |-> {}]

Procs == [kind : {"conn"}, id : DOMAIN conn] \cup [kind : {"task"}, id : DOMAIN task]

Proc(p) == IF p.kind = "conn" THEN conn[p.id] ELSE task[p.id]

Holder(lock) == {p \in Procs : lock \in Proc(p).held}

\* the process starts part n
started(s, n) == [pc |-> n.pc, todo |-> n.todo, held |-> s.held]

\* the next lock operation of a process, followed by part n when it is the
\* last of its part
stepped(s, n) ==
    LET o == Head(s.todo)
        held == IF o.op = "acq" THEN s.held \cup o.locks ELSE s.held \ o.locks
    IN  IF Len(s.todo) > 1
        THEN [pc |-> s.pc, todo |-> Tail(s.todo), held |-> held]
        ELSE [pc |-> n.pc, todo |-> n.todo, held |-> held]

\* an acquisition waits until no process holds the lock
CanStep(s) ==
    /\ s.todo # <<>>
    /\ Head(s.todo).op = "acq" => \A l \in Head(s.todo).locks : Holder(l) = {}

HandlerStart(c) ==
    /\ conn[c].pc = "idle"
    /\ \E n \in handler_next(c, "idle") : conn' = [conn EXCEPT ![c] = started(conn[c], n)]
    /\ UNCHANGED <<batch_queue, user_states, chainVars, tb, obs>>

HandlerStep(c) ==
    /\ CanStep(conn[c])
    /\ \E n \in handler_next(c, conn[c].pc) :
          conn' = [conn EXCEPT ![c] = stepped(conn[c], n)]
    /\ UNCHANGED <<batch_queue, user_states, chainVars, tb, obs>>

TaskStart(t) ==
    /\ task[t].pc = "idle"
    /\ \E n \in task_next("idle") : task' = [task EXCEPT ![t] = started(task[t], n)]
    /\ UNCHANGED <<batch_queue, user_states, posting_batch, last_uploaded_batch_block,
                   disabled_verifiers, last_seen_block, conn, tb, obs>>

TaskLockStep(t) ==
    /\ CanStep(task[t])
    /\ \E n \in task_next(task[t].pc) :
          task' = [task EXCEPT ![t] = stepped(task[t], n)]
    /\ UNCHANGED <<batch_queue, user_states, posting_batch, last_uploaded_batch_block,
                   disabled_verifiers, last_seen_block, conn, tb, obs>>

InitLocks ==
    /\ batch_queue = {}
    /\ user_states = <<>>
    /\ posting_batch = FALSE
    /\ last_uploaded_batch_block = 0
    /\ disabled_verifiers = 0
    /\ last_seen_block = 0
    /\ conn = [c \in LockConns |-> NoPath]
    /\ task = [t \in LockTasks |-> NoPath]
    /\ tb = NoTB
    /\ obs = NoObs

NextLocks ==
    \/ \E c \in DOMAIN conn : HandlerStart(c)
    \/ \E c \in DOMAIN conn : HandlerStep(c)
    \/ \E t \in DOMAIN task : TaskStart(t)
    \/ \E t \in DOMAIN task : TaskLockStep(t)

SpecLocks == InitLocks /\ [][NextLocks]_vars

Held(p) == Proc(p).held

SharedWithBatchState == {"last_uploaded_batch_block", "posting_batch", "disabled_verifiers"}

\* the order in which the locks are taken
Rank(lock) ==
    CASE lock = "disabled_verifiers" -> 0
      [] lock = "batch_state" -> 1
      [] lock = "last_uploaded_batch_block" -> 2
      [] lock = "posting_batch" -> 3
      [] OTHER -> 4

\* C34 as stated: the BatchState lock is held together with one of the locks
\* of last_uploaded_batch_block, posting_batch and disabled_verifiers only by
\* a handle_new_block task, and then with that of last_uploaded_batch_block
\* alone.
C34_OnlyBatchStateThenLastUploaded ==
    \A p \in Procs :
        "batch_state" \in Held(p) /\ Held(p) \cap SharedWithBatchState # {}
            => /\ p.kind = "task"
               /\ Held(p) \cap SharedWithBatchState = {"last_uploaded_batch_block"}

\* C34, amended: a lock is only taken by a process that holds none but locks
\* earlier in the order disabled_verifiers, BatchState,
\* last_uploaded_batch_block, posting_batch, sink; and a connection handler
\* never holds the BatchState lock together with one of the locks of
\* last_uploaded_batch_block, posting_batch and disabled_verifiers.
C34_LockNestingDiscipline ==
    [][\A p \in Procs :
          /\ \A l \in Held(p)' \ Held(p) : \A h \in Held(p) : Rank(h) < Rank(l)
          /\ p.kind = "conn" /\ "batch_state" \in Held(p)'
                => Held(p)' \cap SharedWithBatchState = {}]_vars

\* is_batch_ready holds three locks at once, and a flush takes the BatchState
\* lock and a sink under the lock of disabled_verifiers
C34_Witness ==
    /\ \E t \in DOMAIN task :
          task[t].held = {"batch_state", "last_uploaded_batch_block", "posting_batch"}
    /\ \E t \in DOMAIN task :
          /\ task[t].held = {"disabled_verifiers"}
          /\ task[t].todo # <<>>
          /\ Head(task[t].todo) = Acq("batch_state")

\* p waits for a lock that q holds
WaitsFor(p, q) ==
    /\ Proc(p).todo # <<>>
    /\ Head(Proc(p).todo).op = "acq"
    /\ Head(Proc(p).todo).locks \cap Held(q) # {}

\* C35: there is no set of handlers and handle_new_block tasks each of which
\* waits for a lock held by a member of the set.
C35_DeadlockFreedom ==
    \A S \in SUBSET Procs :
        S # {} => \E p \in S : \A q \in S : ~WaitsFor(p, q)

\* a task waits for the BatchState lock of a handler that waits for the sink
\* of the other connection
C35_Witness ==
    \E p, q, r \in Procs :
        /\ p # q /\ q # r /\ p # r
        /\ p.kind = "task" /\ q.kind = "conn"
        /\ WaitsFor(p, q)
        /\ WaitsFor(q, r)

(***************************************************************************)
(* Replacements seen from outside: a handler run with no other task in     *)
(* between records, next to its response, the sinks it has closed.         *)
(***************************************************************************)

\* handle_replacement_message: the sink of the old entry is closed once the
\* entry is found and its fee is not above that of the replacement, before
\* replacement_entry_is_valid is asked
closed_sinks(queue, msg, addr) ==
    LET found == get_entry(queue, addr, msg.nonce)
    IN  IF found = {} THEN {}
        ELSE LET entry == CHOOSE e \in found : TRUE
             IN  IF entry.max_fee > msg.max_fee THEN {} ELSE {entry.sink}

\* the responses with which handle_replacement_message ends once it has
\* looked for the entry
FromReplacement(resp) == resp \in {"Replaced", "InvalidReplacementMessage"}

\* handle_submit_proof_msg of a paying address
AdmitObserved(c) ==
    /\ conn[c].pc = "idle"
    /\ \E e \in PassingEnvelopes(disabled_verifiers) :
          /\ ~is_nonpaying(e.signer)
          /\ \E in \in [m : {e}, nonce : 0..MaxNonce, max_fee : MaxFees,
                         unlocked : {FALSE},
                         ethereum_user_nonce :
                             NonceReads(~contains_key(user_states, e.signer)),
                         user_balance : Balances \cup {RpcError}] :
                \E out \in {handle_submit_proof_msg(batch_queue, user_states,
                                                    disabled_verifiers, c, in)} :
                   /\ batch_queue' = out.queue
                   /\ user_states' = out.states
                   /\ obs' = [outcome |-> out.resp, sent |-> {}, run |-> <<>>,
                              closed |-> IF FromReplacement(out.resp)
                                         THEN closed_sinks(batch_queue,
                                                  StoredMsg(e, in.nonce, in.max_fee),
                                                  e.signer)
                                         ELSE {}]
    /\ UNCHANGED <<chainVars, conn, tb>>

NextReplacement == \E c \in Conns : AdmitObserved(c)

SpecReplacement == InitConnection /\ [][NextReplacement]_vars

\* C36: a replacement answered InvalidNonce or InvalidReplacementMessage
\* leaves the queue, and with it the data, the priority and the sink of the
\* queued entry, as it was, and closes no sink.
C36_RejectedReplacementNoSideEffect ==
    [][obs'.outcome \in {"InvalidNonce", "InvalidReplacementMessage"}
          => batch_queue' = batch_queue /\ obs'.closed = {}]_vars

\* C37: a submission answered AddToBatchError has left the queue and the
\* user states as they were.
C37_AddToBatchErrorLeavesNothing ==
    [][\A c \in Conns :
          conn[c].pc = "idle" /\ conn'[c].pc = "done" /\ conn'[c].resp = "AddToBatchError"
              => batch_queue' = batch_queue /\ user_states' = user_states]_vars

(***************************************************************************)
(* A flush while a batch is in flight: two handle_new_block tasks, the      *)
(* submissions of the non-paying address, and a record of the entries of   *)
(* batches in flight that a flush has sent BatchReset; included are the    *)
(* entries the last step has sent BatchInclusion.                          *)
(***************************************************************************)

\* the entries of the batches handed to finalize_batch and not yet answered
EntriesInFlight ==
    UNION {{task[t].batch[i] : i \in 1..Len(task[t].batch)} : t \in Tasks}

\* the entries in flight that have been sent BatchReset
ResetInFlight == IF "reset" \in DOMAIN obs THEN obs.reset ELSE {}

\* the entries a flush of the queue sends BatchReset
Flushed(queue) == {x.entry : x \in queue}

handle_new_block_in_flight(t) ==
    /\ task[t].pc = "start"
    /\ \E gas_price \in GasPrices \cup {RpcError},
          new_disable_verifiers \in VerifierBitmaps \cup {RpcError} :
          \E nonce_read \in NonceReads(new_disable_verifiers \notin {RpcError, disabled_verifiers}) :
             handle_new_block_reading(t, gas_price, new_disable_verifiers, nonce_read,
                 IF gas_price # RpcError /\ new_disable_verifiers \notin {RpcError, disabled_verifiers}
                 THEN [outcome |-> "-", sent |-> BatchResetMessages(batch_queue),
                       run |-> <<>>,
                       reset |-> ResetInFlight \cup (Flushed(batch_queue) \cap EntriesInFlight),
                       included |-> {}]
                 ELSE [outcome |-> "-", sent |-> {}, run |-> <<>>,
                       reset |-> ResetInFlight, included |-> {}])

submit_batch_in_flight(t) ==
    /\ task[t].pc = "submit"
    /\ \E run \in SubmitRuns :
          \E outcome \in {submit_batch_result(run)} :
          \E nonce_read \in NonceReads(outcome # "Ok" /\ flushes_on(outcome)) :
             submit_batch_with(t, outcome, nonce_read,
                 [outcome |-> outcome,
                  sent |-> IF outcome = "Ok"
                           THEN send_batch_inclusion_data_responses(task[t].batch)
                           ELSE IF flushes_on(outcome) THEN BatchResetMessages(batch_queue)
                           ELSE {},
                  run |-> <<>>,
                  reset |-> ResetInFlight,
                  included |-> IF outcome = "Ok"
                               THEN {task[t].batch[i] : i \in 1..Len(task[t].batch)}
                               ELSE {}])

NextInFlight ==
    \/ \E c \in Conns : handle_nonpaying_msg(c)
    \/ \E c \in Conns : Return(c)
    \/ NewBlock
    \/ Resubscribe
    \/ \E t \in Tasks : handle_new_block_in_flight(t)
    \/ \E t \in Tasks : is_batch_ready(t)
    \/ \E t \in Tasks : finalize_batch(t)
    \/ \E t \in Tasks : submit_batch_in_flight(t)
    \/ \E t \in Tasks : reset_posting_batch(t)

SpecInFlight == InitTasks /\ [][NextInFlight]_vars

\* C38: no entry that a flush has sent BatchReset while its batch was in
\* flight is afterwards sent BatchInclusion.
C38_ResetExcludesInclusion ==
    "included" \in DOMAIN obs => obs.included \cap obs.reset = {}

(***************************************************************************)
(* Tasks out of block order: two handle_new_block tasks and one block more *)
(* than elsewhere, so that the task of a block can reach is_batch_ready    *)
(* after the batch of a later block has been uploaded.                     *)
(***************************************************************************)

\* listen_new_blocks_retryable: a block out of blocks
NewBlockIn(blocks) ==
    /\ IdleTasks # {}
    /\ \E block_number \in blocks :
          IF block_number <= last_seen_block
          THEN UNCHANGED <<last_seen_block, task>>
          ELSE /\ last_seen_block' = block_number
               /\ LET t == CHOOSE t \in IdleTasks : \A u \in IdleTasks : t <= u
                  IN  task' = [task EXCEPT ![t] =
                                  [IdleTask EXCEPT !.pc = "start",
                                                   !.block_number = block_number]]
    /\ UNCHANGED <<batch_queue, user_states, posting_batch, last_uploaded_batch_block,
                   disabled_verifiers, conn, tb, obs>>

NextBlocks ==
    \/ \E c \in Conns : handle_nonpaying_msg(c)
    \/ \E c \in Conns : Return(c)
    \/ NewBlockIn(1..(MaxBlock + 1))
    \/ Resubscribe
    \/ \E t \in Tasks : handle_new_block(t)
    \/ \E t \in Tasks : is_batch_ready(t)
    \/ \E t \in Tasks : finalize_batch(t)
    \/ \E t \in Tasks : submit_batch(t)
    \/ \E t \in Tasks : reset_posting_batch(t)

SpecBlocks == InitTasks /\ [][NextBlocks]_vars

\* C39: every write to last_uploaded_batch_block stores a value that is not
\* below the value it replaces, in whatever order the tasks of the blocks run.
C39_LastUploadedNeverDecreases ==
    [][last_uploaded_batch_block' >= last_uploaded_batch_block]_vars

\* the task of a block is asked for a batch after the batch of a later block
\* has been uploaded, with proofs queued and no batch being posted
C39_Witness ==
    \E t \in Tasks :
        /\ task[t].pc = "is_batch_ready"
        /\ task[t].block_number < last_uploaded_batch_block
        /\ batch_queue # {}
        /\ ~posting_batch

(***************************************************************************)
(* handle_connection and the gauge open_connections.  conn[c].pc is the    *)
(* place of the connection in handle_connection, obs.open_connections the  *)
(* value of the gauge and obs.broken_ws_connections that of the counter of *)
(* connections ended by an error.                                          *)
(***************************************************************************)
GaugeConns == {"c1", "c2", "c3"}

\* open_connections.inc() and open_connections.dec()
gauge(delta) == [obs EXCEPT !.open_connections = @ + delta]

at(c, pc) == [conn EXCEPT ![c].pc = pc]

GaugeUnchanged ==
    UNCHANGED <<batch_queue, user_states, posting_batch, last_uploaded_batch_block,
                disabled_verifiers, last_seen_block, task, tb>>

\* handle_connection is entered
handle_connection(c) ==
    /\ conn[c].pc = "none"
    /\ obs' = gauge(1)
    /\ conn' = at(c, "accept_async")
    /\ GaugeUnchanged

\* the handshake: it succeeds, fails or times out
accept_async(c) ==
    /\ conn[c].pc = "accept_async"
    /\ \E result \in {"Ok", "Err", "Elapsed"} :
          IF result = "Ok"
          THEN /\ conn' = at(c, "protocol_version")
               /\ UNCHANGED obs
          ELSE /\ conn' = at(c, "returned")
               /\ obs' = gauge(-1)
    /\ GaugeUnchanged

\* ProtocolVersion is sent; a failed send returns through the operator ?
send_protocol_version(c) ==
    /\ conn[c].pc = "protocol_version"
    /\ \E sent \in BOOLEAN :
          conn' = at(c, IF sent THEN "first_message" ELSE "returned")
    /\ UNCHANGED obs
    /\ GaugeUnchanged

\* the first message: it is handled, or the wait times out, the stream has
\* ended, or the read fails
first_message(c) ==
    /\ conn[c].pc = "first_message"
    /\ \E result \in {"Some", "Elapsed", "None", "Err"} :
          IF result = "Some"
          THEN /\ conn' = at(c, "try_for_each")
               /\ UNCHANGED obs
          ELSE /\ conn' = at(c, "returned")
               /\ obs' = gauge(-1)
    /\ GaugeUnchanged

\* the message loop: one more message is handled, or the loop ends, with an
\* error or without
try_for_each(c) ==
    /\ conn[c].pc = "try_for_each"
    /\ \E result \in {"Some", "None", "Err"} :
          IF result = "Some"
          THEN UNCHANGED <<conn, obs>>
          ELSE /\ conn' = at(c, "returned")
               /\ obs' = [gauge(-1) EXCEPT !.broken_ws_connections =
                                               IF result = "Err" THEN @ + 1 ELSE @]
    /\ GaugeUnchanged

InitGauge ==
    /\ batch_queue = {}
    /\ user_states = <<>>
    /\ posting_batch = FALSE
    /\ last_uploaded_batch_block = 0
    /\ disabled_verifiers = 0
    /\ last_seen_block = 0
    /\ conn = [c \in GaugeConns |-> [pc |-> "none"]]
    /\ task = [t \in {1} |-> IdleTask]
    /\ tb = NoTB
    /\ obs = [outcome |-> "-", sent |-> {}, run |-> <<>>, open_connections |-> 0,
              broken_ws_connections |-> 0]

NextGauge ==
    \/ \E c \in Conns : handle_connection(c)
    \/ \E c \in Conns : accept_async(c)
    \/ \E c \in Conns : send_protocol_version(c)
    \/ \E c \in Conns : first_message(c)
    \/ \E c \in Conns : try_for_each(c)

SpecGauge == InitGauge /\ [][NextGauge]_vars

\* C40: once every connection has ended, open_connections is back at the
\* value it had before the connections were accepted.
C40_OpenConnectionsBalanced ==
    (\A c \in Conns : conn[c].pc = "returned") => obs.open_connections = 0

====
